---- MODULE Spec2Model ----
(***************************************************************************)
(* Model of the biome generator's request handler:                         *)
(*   src/app/api/generate/route.ts   POST, isRateLimited, cleanup          *)
(*   src/lib/datapackGenerator.ts    BiomeSchema, generateBiomeFrom-       *)
(*                                   Description, parseBiomeResponse,      *)
(*                                   generateCompleteDatapack              *)
(* A POST handler is an async function: it runs without interruption from  *)
(* one await to the next, so every action below is one such segment.       *)
(***************************************************************************)
EXTENDS Integers, Sequences, FiniteSets, TLC

\* ------------------------------------------------------------ constants
\* route.ts:21, route.ts:22
RATE_LIMIT_MAX == 10
RATE_LIMIT_WINDOW_MS == 60000
\* datapackGenerator.ts:597, 598
MAX_RETRIES == 3
RETRY_DELAY_MS == 2000
\* the Retry-After header of the 429 answer, in seconds (route.ts:119)
RETRY_AFTER_S == 60

\* ------------------------------------------------------------ bounds
\* sanitizeBiomeName is applied to every string of up to MaxNameLen
\* characters of NameAlphabet
MaxNameLen == 3
\* colour components come from the MaxEdge + 1 values at each end of 0..255,
\* from the middle and from the prompt's examples
MaxEdge == 1

\* Date.now() is read at the start of a rate-limit window (0 and
\* RATE_LIMIT_WINDOW_MS) or up to MaxSkew ms after it: at, and on both sides
\* of, every instant at which an entry made at one of these times expires.
MaxSkew == 1

TimePoints ==
  { w * RATE_LIMIT_WINDOW_MS + s : w \in {0, 1}, s \in 0..MaxSkew }

Handlers == {1, 2}

\* ------------------------------------------------------------ requests
NoHeader == "null"
\* values of the x-forwarded-for / x-real-ip request headers
HeaderValues == {NoHeader, "10.0.0.1"}
Headers == [xff : HeaderValues, xri : HeaderValues]

\* route.ts:103-105: the first truthy header, else 'unknown'
ClientIP(hdr) ==
  IF hdr.xff # NoHeader /\ hdr.xff # "" THEN hdr.xff
  ELSE IF hdr.xri # NoHeader /\ hdr.xri # "" THEN hdr.xri
  ELSE "unknown"

Clients == { ClientIP(hdr) : hdr \in Headers }

\* ------------------------------------------------------------ rate limiter
\* rateLimitMap is a Map: a function whose domain is the set of keys present.
MapSetClearing(m, k, e) == [x \in {k} |-> e]

MapSet(m, k, e) == [x \in (DOMAIN m) \cup {k} |-> IF x = k THEN e ELSE m[x]]

MapDelete(m, k) == [x \in (DOMAIN m) \ {k} |-> m[x]]

ExpiredAtEdge(entry, t) == t >= entry.resetTime

\* route.ts:33 `now > entry.resetTime`
Expired(entry, t) == t > entry.resetTime

AtLimitOffByOne(entry) == entry.count > RATE_LIMIT_MAX

AtLimitNever(entry) == FALSE

\* route.ts:42 `entry.count >= RATE_LIMIT_MAX`
AtLimit(entry) == entry.count >= RATE_LIMIT_MAX

\* route.ts:35-38
FreshEntry(t) == [count |-> 1, resetTime |-> t + RATE_LIMIT_WINDOW_MS]

IncrementSliding(entry, t) ==
  [count |-> entry.count + 1, resetTime |-> t + RATE_LIMIT_WINDOW_MS]

IncrementLost(entry, t) == entry

\* route.ts:47 `entry.count++` (t, the time of the call, is not used)
Increment(entry, t) == [count |-> entry.count + 1, resetTime |-> entry.resetTime]

\* route.ts:29-49: the verdict and the map after the call
isRateLimited(m, identifier, t) ==
  IF identifier \notin DOMAIN m \/ Expired(m[identifier], t)
  THEN [limited |-> FALSE, map |-> MapSet(m, identifier, FreshEntry(t))]
  ELSE IF AtLimit(m[identifier])
       THEN [limited |-> TRUE, map |-> m]
       ELSE [limited |-> FALSE,
             map |-> MapSet(m, identifier, Increment(m[identifier], t))]

RECURSIVE DeleteAll(_, _)
DeleteAll(m, keys) ==
  IF keys = {} THEN m
  ELSE LET k == CHOOSE x \in keys : TRUE
       IN DeleteAll(MapDelete(m, k), keys \ {k})

cleanupEverything(m, t) == DeleteAll(m, DOMAIN m)

\* route.ts:54-61
cleanupRateLimitMap(m, t) ==
  DeleteAll(m, { k \in DOMAIN m : t > m[k].resetTime })

\* ------------------------------------------------------------ JSON values
\* A JSON value carries its type; a number x is v when whole, and lies
\* strictly between v and v + 1 otherwise (0.8 is JFrac(0), -0.5 is JFrac(-1)).
JNum(v) == [t |-> "number", v |-> v, whole |-> TRUE]
JFrac(v) == [t |-> "number", v |-> v, whole |-> FALSE]
JStr == [t |-> "string"]
JBool == [t |-> "boolean"]
JUndef == [t |-> "undefined"]
JArr(items) == [t |-> "array", items |-> items]

\* x >= k and x <= k for an integer k
NumGe(x, k) == x.v >= k
NumLe(x, k) == IF x.whole THEN x.v <= k ELSE x.v < k

\* ------------------------------------------------------------ BiomeSchema
zNumber(x) == x.t = "number"
zInt(x) == zNumber(x) /\ x.whole
zString(x) == x.t = "string"
zBoolean(x) == x.t = "boolean"
zOptionalInt(x) == x.t = "undefined" \/ zInt(x)
zArrayOfString(x) == x.t = "array" /\ \A i \in 1..Len(x.items) : zString(x.items[i])

\* a string value with its text, for the fields whose text matters
JText(chars) == [t |-> "string", chars |-> chars]
Frozen == <<"f","r","o","z","e","n">>

\* datapackGenerator.ts:521 z.enum(['frozen']).optional()
zOptionalFrozen(x) == x.t = "undefined" \/ x = JText(Frozen)

\* datapackGenerator.ts:473-500 (the optional sound, music and particle
\* records are absent from every document of the model)
BiomeEffectsSchema(e) ==
  /\ e.t = "object"
  /\ zInt(e.sky_color)
  /\ zInt(e.fog_color)
  /\ zInt(e.water_color)
  /\ zInt(e.water_fog_color)
  /\ zOptionalInt(e.foliage_color)
  /\ zOptionalInt(e.grass_color)

\* datapackGenerator.ts:502-507
SpawnerEntrySchema(e) ==
  /\ e.t = "object"
  /\ zString(e.type)
  /\ zInt(e.weight)
  /\ zInt(e.minCount)
  /\ zInt(e.maxCount)

SpawnerList(x) ==
  x.t = "array" /\ \A i \in 1..Len(x.items) : SpawnerEntrySchema(x.items[i])

\* datapackGenerator.ts:509-516
BiomeSpawnersSchema(s) ==
  /\ s.t = "object"
  /\ SpawnerList(s.monster)
  /\ SpawnerList(s.creature)
  /\ SpawnerList(s.ambient)
  /\ SpawnerList(s.water_creature)
  /\ SpawnerList(s.water_ambient)
  /\ (s.misc.t = "undefined" \/ SpawnerList(s.misc))

FeatureStages(x) ==
  x.t = "array" /\ \A i \in 1..Len(x.items) : zArrayOfString(x.items[i])

\* datapackGenerator.ts:518-538 (the optional carvers, starts, spawn_costs,
\* player_spawn_friendly and creature_spawn_probability are absent from
\* every document of the model)
BiomeSchema(d) ==
  /\ d.t = "object"
  /\ zBoolean(d.has_precipitation)
  /\ zNumber(d.temperature)
  /\ zOptionalFrozen(d.temperature_modifier)
  /\ zNumber(d.downfall)
  /\ BiomeEffectsSchema(d.effects)
  /\ zString(d.surface_builder)
  /\ FeatureStages(d.features)
  /\ BiomeSpawnersSchema(d.spawners)

\* BiomeSchema.parse returns a new object that keeps the declared keys only
\* (z.object strips the rest); `extra` says whether undeclared keys are present.
BiomeSchemaParse(d) == [d EXCEPT !.extra = FALSE]

\* ------------------------------------------------------------ documents
Entry(w, mn, mx) ==
  [t |-> "object", type |-> JStr, weight |-> JNum(w),
   minCount |-> JNum(mn), maxCount |-> JNum(mx)]

Stages(n) == JArr([i \in 1..n |-> IF i = n THEN JArr(<<JStr>>) ELSE JArr(<<>>)])

BaseEffects ==
  [t |-> "object", sky_color |-> JNum(7907327), fog_color |-> JNum(12638463),
   water_color |-> JNum(4159204), water_fog_color |-> JNum(329011),
   foliage_color |-> JUndef, grass_color |-> JNum(9551193)]

BaseSpawners ==
  [t |-> "object", monster |-> JArr(<<>>), creature |-> JArr(<<Entry(10, 2, 4)>>),
   ambient |-> JArr(<<>>), water_creature |-> JArr(<<>>),
   water_ambient |-> JArr(<<>>), misc |-> JUndef]

\* a document as the prompt asks for it (datapackGenerator.ts:549-563)
BaseDoc ==
  [t |-> "object", extra |-> FALSE, has_precipitation |-> JBool,
   temperature |-> JFrac(0), temperature_modifier |-> JUndef,
   downfall |-> JFrac(0), effects |-> BaseEffects,
   surface_builder |-> JStr, features |-> Stages(10), spawners |-> BaseSpawners]

\* what JSON.parse can give that is no object at all
NonObject == [t |-> "number", v |-> 5, whole |-> TRUE]

TemperatureValues == {JFrac(-3), JNum(-2), JNum(2), JFrac(2), JStr, JUndef}
DownfallValues == {JFrac(-1), JNum(0), JNum(1), JFrac(1), JStr}
ColorValues == {JNum(-1), JNum(0), JNum(16777215), JNum(16777216), JFrac(255), JStr}
\* temperature_modifier: the enum's value, another word, and words of a
\* quota message
ModifierValues ==
  {JText(Frozen), JText(<<"c","o","l","d">>), JText(<<"Q","u","o","t","a">>),
   JText(<<"4","2","9">>)}
\* stage counts: none, and those at and beside what the prompt (10) and
\* BiomeConfigSchema (11) ask
StageCounts == {0, 9, 10, 11}
SpawnEntries ==
  {Entry(-1, 1, 2), Entry(0, 1, 2), Entry(1, 3, 2), Entry(1, 1, 2),
   [Entry(1, 1, 2) EXCEPT !.weight = JFrac(1)],
   [Entry(1, 1, 2) EXCEPT !.maxCount = JUndef]}

\* the documents the generative-text service may answer with: the base
\* document with one field changed
Docs ==
  {BaseDoc, NonObject, [BaseDoc EXCEPT !.extra = TRUE],
   [BaseDoc EXCEPT !.has_precipitation = JStr],
   [BaseDoc EXCEPT !.effects = JUndef],
   [BaseDoc EXCEPT !.features = JUndef],
   [BaseDoc EXCEPT !.features = JArr(<<JStr>>)],
   [BaseDoc EXCEPT !.spawners.monster = JUndef]}
    \cup { [BaseDoc EXCEPT !.temperature = x] : x \in TemperatureValues }
    \cup { [BaseDoc EXCEPT !.downfall = x] : x \in DownfallValues }
    \cup { [BaseDoc EXCEPT !.temperature_modifier = x] : x \in ModifierValues }
    \cup { [BaseDoc EXCEPT !.effects.sky_color = x] : x \in ColorValues }
    \cup { [BaseDoc EXCEPT !.effects.foliage_color = x] : x \in {JNum(16777216), JStr} }
    \cup { [BaseDoc EXCEPT !.features = Stages(n)] : n \in StageCounts }
    \cup { [BaseDoc EXCEPT !.spawners.creature = JArr(<<Entry(10, 2, 4), e>>)] :
             e \in SpawnEntries }

\* ------------------------------------------------------------ names
\* A string is the sequence of its characters.
UpperCase == <<"A","B","C","D","E","F","G","H","I","J","K","L","M",
               "N","O","P","Q","R","S","T","U","V","W","X","Y","Z">>
LowerCase == <<"a","b","c","d","e","f","g","h","i","j","k","l","m",
               "n","o","p","q","r","s","t","u","v","w","x","y","z">>
Digits == {"0","1","2","3","4","5","6","7","8","9"}

ToLowerChar(c) ==
  IF \E i \in 1..26 : UpperCase[i] = c
  THEN LowerCase[CHOOSE i \in 1..26 : UpperCase[i] = c]
  ELSE c

NameChar(c) == (\E i \in 1..26 : LowerCase[i] = c) \/ c \in Digits \/ c = "_"

RECURSIVE CollapseUnderscores(_)
\* .replace(/_{2,}/g, '_')
CollapseUnderscores(s) ==
  IF Len(s) < 2 THEN s
  ELSE IF s[1] = "_" /\ s[2] = "_" THEN CollapseUnderscores(Tail(s))
  ELSE <<s[1]>> \o CollapseUnderscores(Tail(s))

\* .replace(/^_|_$/g, ''): one underscore off each end
StripEnds(s) ==
  LET a == IF s # <<>> /\ Head(s) = "_" THEN Tail(s) ELSE s
  IN IF a # <<>> /\ a[Len(a)] = "_" THEN SubSeq(a, 1, Len(a) - 1) ELSE a

sanitizeBiomeNameUnstripped(name) ==
  LET lower == [i \in 1..Len(name) |-> ToLowerChar(name[i])]
      mapped == [i \in 1..Len(lower) |-> IF NameChar(lower[i]) THEN lower[i] ELSE "_"]
  IN CollapseUnderscores(mapped)

\* datapackGenerator.ts:325-331
sanitizeBiomeName(name) ==
  LET lower == [i \in 1..Len(name) |-> ToLowerChar(name[i])]
      mapped == [i \in 1..Len(lower) |-> IF NameChar(lower[i]) THEN lower[i] ELSE "_"]
  IN StripEnds(CollapseUnderscores(mapped))

CustomBiome == <<"c","u","s","t","o","m","_","b","i","o","m","e">>

\* a lower-case and an upper-case letter, a digit, the underscore, and two
\* characters the pattern [^a-z0-9_] replaces
NameAlphabet == {"a", "Z", "7", "_", " ", "!"}
NameInputs == UNION { [1..n -> NameAlphabet] : n \in 0..MaxNameLen }

\* ------------------------------------------------------------ colours
\* JavaScript's bit operators work on 32-bit integers; the operands here are
\* non-negative and below 2^24, where no operation wraps.
RECURSIVE BitOr(_, _)
BitOr(x, y) ==
  IF x = 0 THEN y
  ELSE IF y = 0 THEN x
  ELSE (IF x % 2 = 1 \/ y % 2 = 1 THEN 1 ELSE 0) + 2 * BitOr(x \div 2, y \div 2)

RECURSIVE BitAnd(_, _)
BitAnd(x, y) ==
  IF x = 0 \/ y = 0 THEN 0
  ELSE (IF x % 2 = 1 /\ y % 2 = 1 THEN 1 ELSE 0) + 2 * BitAnd(x \div 2, y \div 2)

ShiftLeft(x, n) == x * 2^n
ShiftRight(x, n) == x \div 2^n

rgbToIntSwapped(r, g, b) == BitOr(BitOr(ShiftLeft(b, 16), ShiftLeft(g, 8)), r)

\* datapackGenerator.ts:720-722 `(r << 16) | (g << 8) | b`
rgbToInt(r, g, b) == BitOr(BitOr(ShiftLeft(r, 16), ShiftLeft(g, 8)), b)

\* datapackGenerator.ts:729-735
intToRgb(color) ==
  [r |-> BitAnd(ShiftRight(color, 16), 255),
   g |-> BitAnd(ShiftRight(color, 8), 255),
   b |-> BitAnd(color, 255)]

\* datapackGenerator.ts:561-563: the conversions the prompt shows
PromptExamples ==
  {[rgb |-> <<140, 180, 250>>, packed |-> 9232634],
   [rgb |-> <<192, 192, 192>>, packed |-> 12638463]}

ComponentValues ==
  (0..MaxEdge) \cup {127, 128} \cup ((255 - MaxEdge)..255)
    \cup { e.rgb[i] : e \in PromptExamples, i \in 1..3 }
PackedColors ==
  { r * 65536 + g * 256 + b : r \in ComponentValues, g \in ComponentValues,
                                b \in ComponentValues }
    \cup { e.packed : e \in PromptExamples }

\* ------------------------------------------------------------ request bodies
\* String.prototype.trim removes white space of every kind from both ends
IsWhiteSpace(c) == c \in {" ", "\t", "\n"}

RECURSIVE TrimStart(_)
TrimStart(s) ==
  IF s # <<>> /\ IsWhiteSpace(Head(s)) THEN TrimStart(Tail(s)) ELSE s

RECURSIVE TrimEnd(_)
TrimEnd(s) ==
  IF s # <<>> /\ IsWhiteSpace(s[Len(s)]) THEN TrimEnd(SubSeq(s, 1, Len(s) - 1)) ELSE s

RECURSIVE Split(_, _)
\* s.split(sep): the pieces between the separators, empty pieces included
Split(s, sep) ==
  IF \A i \in 1..Len(s) : s[i] # sep THEN <<s>>
  ELSE LET i == CHOOSE j \in 1..Len(s) :
                  s[j] = sep /\ \A k \in 1..(j - 1) : s[k] # sep
       IN <<SubSeq(s, 1, i - 1)>> \o Split(SubSeq(s, i + 1, Len(s)), sep)

RECURSIVE Join(_, _)
\* pieces.join(sep)
Join(pieces, sep) ==
  IF pieces = <<>> THEN <<>>
  ELSE IF Len(pieces) = 1 THEN pieces[1]
  ELSE pieces[1] \o <<sep>> \o Join(Tail(pieces), sep)

\* pieces.slice(0, n)
Slice(pieces, n) == SubSeq(pieces, 1, IF Len(pieces) < n THEN Len(pieces) ELSE n)

\* A description is the text `head` followed by `fill` letters "x"; a long
\* description is written with a short head.
DStr(head, fill) == [t |-> "string", head |-> head, fill |-> fill]
NStr(chars) == [t |-> "string", chars |-> chars]

\* description.length
StrLen(d) == Len(d.head) + d.fill

\* description.trim().length
TrimLen(d) ==
  IF d.fill > 0 THEN Len(TrimStart(d.head)) + d.fill
  ELSE Len(TrimEnd(TrimStart(d.head)))

\* description.split(' '); the letters of the fill belong to the last piece
Pieces(d) ==
  LET p == Split(d.head, " ")
  IN [p EXCEPT ![Len(p)] = @ \o [i \in 1..d.fill |-> "x"]]

\* description.split(' ').slice(0, 3).join('_') (route.ts:208)
FirstWords(d) == Join(Slice(Pieces(d), 3), "_")

TooShortUntrimmed(d) == StrLen(d) < 10

\* route.ts:162 `description.trim().length < 10`
TooShort(d) == TrimLen(d) < 10

\* route.ts:172 `description.length > 1000`
TooLong(d) == StrLen(d) > 1000

Descriptions ==
  {JUndef, JNum(7), DStr(<<>>, 0),
   DStr(<<"a"," ","b"," ","c"," ","d"," ","e">>, 0),
   DStr(<<" "," ","a"," ","b"," ","c"," ","\t"," ">>, 0),
   DStr(<<" "," ","I","c","y"," ","p","e","a","k"," ","l","a","n","d","!">>, 0),
   DStr(<<"!"," ","?"," ","."," ">>, 994),
   DStr(<<"!"," ","?"," ","."," ">>, 995)}
BiomeNames ==
  {JUndef, JNum(7), NStr(<<>>), NStr(<<"!","!">>), NStr(<<"M","y"," ","B","_">>)}

InvalidJson == [json |-> "invalid"]
NonObjectBody == [json |-> "value"]
Body(desc, name) == [json |-> "object", description |-> desc, biomeName |-> name]
Bodies ==
  {InvalidJson, NonObjectBody}
    \cup { Body(d, n) : d \in Descriptions, n \in BiomeNames }

\* route.ts:126-212: the error of the request body, or "" when it is accepted
BodyError(b) ==
  IF b.json = "invalid" THEN "Invalid JSON"
  ELSE IF b.json # "object" THEN "Invalid request body"
  ELSE IF b.description.t # "string" \/ StrLen(b.description) = 0
       THEN "Description is required"
  ELSE IF TooShort(b.description) THEN "Description too short"
  ELSE IF TooLong(b.description) THEN "Description too long"
  ELSE IF b.biomeName.t # "undefined" /\ b.biomeName.t # "string"
       THEN "Invalid biome name"
  ELSE IF b.biomeName.t = "string" /\ b.biomeName.chars # <<>>
          /\ sanitizeBiomeName(b.biomeName.chars) = <<>>
       THEN "Invalid biome name"
  ELSE ""

BiomeNameOfNoFallback(b) ==
  IF b.biomeName.t = "string" /\ b.biomeName.chars # <<>>
  THEN sanitizeBiomeName(b.biomeName.chars)
  ELSE sanitizeBiomeName(FirstWords(b.description))

\* route.ts:193-212: the biome name of an accepted body
BiomeNameOf(b) ==
  IF b.biomeName.t = "string" /\ b.biomeName.chars # <<>>
  THEN sanitizeBiomeName(b.biomeName.chars)
  ELSE IF sanitizeBiomeName(FirstWords(b.description)) = <<>> THEN CustomBiome
       ELSE sanitizeBiomeName(FirstWords(b.description))

\* ------------------------------------------------------------ AI service
\* An error is its origin and whether its message contains 'rate limit',
\* 'quota' or '429' (datapackGenerator.ts:664-666, route.ts:225-227).
Err(src, rl) == [src |-> src, rl |-> rl]
NoError == Err("none", FALSE)

\* What model.generateContent gives on one attempt: it throws, or it returns
\* a text that JSON.parse rejects (the engine's message may quote the text),
\* or a text that parses to a document.
AiOutcomes ==
  { [kind |-> "throw", rl |-> b] : b \in BOOLEAN }
    \cup { [kind |-> "garbage", rl |-> b] : b \in BOOLEAN }
    \cup { [kind |-> "json", doc |-> d] : d \in Docs }

\* message.toLowerCase()
ToLowerCase(s) == [i \in 1..Len(s) |-> ToLowerChar(s[i])]

\* s.includes(w)
Includes(s, w) ==
  \E i \in 0..(Len(s) - Len(w)) : SubSeq(s, i + 1, i + Len(w)) = w

RateLimitWords ==
  {<<"r","a","t","e"," ","l","i","m","i","t">>, <<"q","u","o","t","a">>,
   <<"4","2","9">>}

\* datapackGenerator.ts:664-666 and route.ts:225-227, on the part of the
\* message that varies
NamesRateLimit(text) ==
  \E w \in RateLimitWords : Includes(ToLowerCase(text), w)

\* datapackGenerator.ts:647-658: the message is `Biome validation failed: `
\* and zod's issues as `path: message`. For a string outside an enum zod
\* writes "Invalid enum value. Expected 'frozen', received '<the string>'";
\* the other issues of the model's documents ("temperature: Expected
\* number, received string", ...) name no rate-limit word.
SchemaMessageNamesRateLimit(doc) ==
  /\ doc.t = "object"
  /\ doc.temperature_modifier.t = "string"
  /\ ~zOptionalFrozen(doc.temperature_modifier)
  /\ NamesRateLimit(doc.temperature_modifier.chars)

\* datapackGenerator.ts:623-658: the error of one attempt, NoError on success
AttemptError(out) ==
  IF out.kind = "throw" THEN Err("service", out.rl)
  ELSE IF out.kind = "garbage" THEN Err("parse", out.rl)
  ELSE IF ~BiomeSchema(out.doc)
       THEN Err("schema", SchemaMessageNamesRateLimit(out.doc))
  ELSE NoError

\* datapackGenerator.ts:609-611
MissingKeyError == Err("nokey", FALSE)

\* datapackGenerator.ts:688-690: `Failed to generate biome after 3 attempts.
\* Last error: <message>`; it names a rate-limit word iff the last error does
ExhaustedError(err) ==
  [src |-> "exhausted", rl |-> err.rl, attempts |-> MAX_RETRIES, last |-> err]

MoreAttemptsOneMore(n) == n <= MAX_RETRIES

\* datapackGenerator.ts:668, 676 `attempt < MAX_RETRIES`
MoreAttempts(n) == n < MAX_RETRIES

RetryDelayConstant(err, n) == RETRY_DELAY_MS

\* datapackGenerator.ts:668-679: the sleep before the next attempt
RetryDelay(err, n) == IF err.rl THEN RETRY_DELAY_MS * n ELSE RETRY_DELAY_MS

AiErrorCodeMixedUp(err) == IF err.rl THEN "AI_RATE_LIMIT" ELSE "VALIDATION_ERROR"

\* route.ts:224-232: the wrapped message contains the last error's message
AiErrorCode(err) == IF err.rl THEN "AI_RATE_LIMIT" ELSE "AI_ERROR"

parseBiomeResponseUnchecked(geminiOutput) ==
  [ok |-> geminiOutput.t = "object", doc |-> geminiOutput, parses |-> 0]

\* datapackGenerator.ts:36-60 with validateBiomeConfiguration (699-711):
\* whether it returns, the document it returns, and the number of
\* BiomeSchema.parse calls it made. The handler passes the object that
\* generateBiomeFromDescription returned, never a string.
parseBiomeResponse(geminiOutput) ==
  IF geminiOutput.t # "object"
  THEN [ok |-> FALSE, doc |-> JUndef, parses |-> 0]
  ELSE IF BiomeSchema(geminiOutput)
       THEN [ok |-> TRUE, doc |-> BiomeSchemaParse(geminiOutput), parses |-> 1]
       ELSE [ok |-> FALSE, doc |-> JUndef, parses |-> 1]

\* templates.ts:717, the largest packed RGB colour
COLOR_MAX == 16777215
\* templates.ts:752 and the prompt (datapackGenerator.ts:558)
FEATURE_STAGES == 10

\* ------------------------------------------------------------ validators
\* templates.ts:385-1158. Values are the JSON values above and, for what a
\* caller can pass besides, null and NaN. A key whose value is JUndef is
\* absent from its object.
JNull == [t |-> "null"]
JNaN == [t |-> "number", nan |-> TRUE]

\* a resource location `ns:name`, and a string `name` without a colon
Id(ns, name) == [t |-> "string", ns |-> ns, name |-> name]
Plain(name) == [t |-> "string", ns |-> "", name |-> name]
TextOf(x) == IF x.ns = "" THEN x.name ELSE x.ns \o ":" \o x.name
\* x.includes(':')
IncludesColon(x) == x.ns # ""
\* x.startsWith('minecraft:')
StartsWithMinecraft(x) == x.ns = "minecraft"

\* typeof x === 'object' && x !== null
IsObject(x) == x.t \in {"object", "array"}
\* obj[key], undefined when the key is absent
Get(obj, key) ==
  IF obj.t = "object" /\ key \in DOMAIN obj THEN obj[key] ELSE JUndef
\* key in obj
HasKey(obj, key) == Get(obj, key) # JUndef

\* x < k and x > k for an integer k; every comparison with NaN is false
LessThan(x, k) == x # JNaN /\ x.v < k
GreaterThan(x, k) == x # JNaN /\ (IF x.whole THEN x.v > k ELSE x.v >= k)
\* x > y for two numbers
Greater(x, y) ==
  /\ x # JNaN /\ y # JNaN
  /\ IF ~x.whole /\ y.whole THEN x.v >= y.v ELSE x.v > y.v
\* typeof x === 'number' && Number.isInteger(x)
IsInteger(x) == x.t = "number" /\ x # JNaN /\ x.whole

\* templates.ts:393-398
ValidationError(field, message) == [field |-> field, message |-> message]

RECURSIVE Flatten(_)
\* errors.push(...list) for every list, in order
Flatten(lists) ==
  IF lists = <<>> THEN <<>> ELSE Head(lists) \o Flatten(Tail(lists))

\* `return { valid: errors.length === 0, errors }`
ValidationResult(errors) == [valid |-> errors = <<>>, errors |-> errors]
\* `return { valid: false, errors }`
Invalid(errors) == [valid |-> FALSE, errors |-> errors]

\* templates.ts:404-455
KNOWN_BLOCKS ==
  {"minecraft:grass_block", "minecraft:dirt", "minecraft:stone",
   "minecraft:sand", "minecraft:gravel", "minecraft:oak_log",
   "minecraft:oak_leaves", "minecraft:birch_log", "minecraft:birch_leaves",
   "minecraft:spruce_log", "minecraft:spruce_leaves", "minecraft:jungle_log",
   "minecraft:jungle_leaves", "minecraft:acacia_log",
   "minecraft:acacia_leaves", "minecraft:dark_oak_log",
   "minecraft:dark_oak_leaves", "minecraft:water", "minecraft:lava",
   "minecraft:bedrock", "minecraft:coal_ore", "minecraft:iron_ore",
   "minecraft:gold_ore", "minecraft:diamond_ore", "minecraft:emerald_ore",
   "minecraft:lapis_ore", "minecraft:redstone_ore", "minecraft:netherrack",
   "minecraft:soul_sand", "minecraft:soul_soil", "minecraft:basalt",
   "minecraft:blackstone", "minecraft:snow", "minecraft:ice",
   "minecraft:packed_ice", "minecraft:blue_ice", "minecraft:clay",
   "minecraft:terracotta", "minecraft:red_sand", "minecraft:mycelium",
   "minecraft:podzol", "minecraft:coarse_dirt", "minecraft:granite",
   "minecraft:diorite", "minecraft:andesite", "minecraft:deepslate",
   "minecraft:tuff", "minecraft:calcite", "minecraft:moss_block",
   "minecraft:rooted_dirt"}

\* templates.ts:460-531
KNOWN_MOBS ==
  {"minecraft:zombie", "minecraft:skeleton", "minecraft:creeper",
   "minecraft:spider", "minecraft:cave_spider", "minecraft:enderman",
   "minecraft:witch", "minecraft:slime", "minecraft:phantom",
   "minecraft:drowned", "minecraft:husk", "minecraft:stray",
   "minecraft:zombie_villager", "minecraft:vindicator", "minecraft:evoker",
   "minecraft:pillager", "minecraft:ravager", "minecraft:vex",
   "minecraft:blaze", "minecraft:ghast", "minecraft:magma_cube",
   "minecraft:wither_skeleton", "minecraft:piglin", "minecraft:piglin_brute",
   "minecraft:hoglin", "minecraft:zoglin", "minecraft:guardian",
   "minecraft:elder_guardian", "minecraft:shulker", "minecraft:silverfish",
   "minecraft:endermite", "minecraft:pig", "minecraft:cow",
   "minecraft:sheep", "minecraft:chicken", "minecraft:rabbit",
   "minecraft:horse", "minecraft:donkey", "minecraft:mule",
   "minecraft:llama", "minecraft:cat", "minecraft:wolf", "minecraft:ocelot",
   "minecraft:parrot", "minecraft:fox", "minecraft:panda",
   "minecraft:polar_bear", "minecraft:turtle", "minecraft:goat",
   "minecraft:axolotl", "minecraft:frog", "minecraft:villager",
   "minecraft:iron_golem", "minecraft:snow_golem", "minecraft:squid",
   "minecraft:glow_squid", "minecraft:dolphin", "minecraft:cod",
   "minecraft:salmon", "minecraft:tropical_fish", "minecraft:pufferfish",
   "minecraft:bat"}

\* templates.ts:536-551
KNOWN_SURFACE_BUILDERS ==
  {"minecraft:grass", "minecraft:desert", "minecraft:stone",
   "minecraft:badlands", "minecraft:mycelium", "minecraft:nether",
   "minecraft:soul_sand_valley", "minecraft:basalt_deltas",
   "minecraft:warped_forest", "minecraft:crimson_forest", "minecraft:end",
   "minecraft:swamp", "minecraft:mountain", "minecraft:frozen_ocean"}

\* templates.ts:840-881
validateTemperature(temp) ==
  IF temp.t # "number"
  THEN Invalid(<<ValidationError("temperature", "Temperature must be a number")>>)
  ELSE ValidationResult(
         IF LessThan(temp, -2) \/ GreaterThan(temp, 2)
         THEN <<ValidationError("temperature",
                                "Temperature must be between -2.0 and 2.0")>>
         ELSE <<>>)

RequiredColors == <<"sky_color", "fog_color", "water_color", "water_fog_color">>

\* templates.ts:701-725, one round of the loop
ColorErrors(effects, colorField) ==
  LET field == "effects." \o colorField
      colorValue == Get(effects, colorField)
  IN IF ~HasKey(effects, colorField)
     THEN <<ValidationError(field, "Required color field missing")>>
     ELSE IF colorValue.t # "number"
     THEN <<ValidationError(field, "Color must be a number")>>
     ELSE IF LessThan(colorValue, 0) \/ GreaterThan(colorValue, COLOR_MAX)
             \/ ~IsInteger(colorValue)
     THEN <<ValidationError(field, "Color must be an integer between 0 and 16777215")>>
     ELSE <<>>

\* templates.ts:685-732
validateEffects(effects) ==
  IF ~IsObject(effects)
  THEN Invalid(<<ValidationError("effects", "effects must be an object")>>)
  ELSE ValidationResult(
         Flatten([i \in 1..Len(RequiredColors) |->
                    ColorErrors(effects, RequiredColors[i])]))

\* templates.ts:768-783, one feature of a stage
FeatureErrors(feature, index, featureIndex) ==
  LET field == "features[" \o ToString(index) \o "][" \o ToString(featureIndex) \o "]"
  IN IF feature.t # "string"
     THEN <<ValidationError(field, "Feature must be a string (resource location)")>>
     ELSE IF ~IncludesColon(feature)
     THEN <<ValidationError(field, "Feature should be a namespaced ID")>>
     ELSE <<>>

\* templates.ts:760-785, one stage
StageErrors(stage, index) ==
  IF stage.t # "array"
  THEN <<ValidationError("features[" \o ToString(index) \o "]",
                         "Feature stage must be an array")>>
  ELSE Flatten([j \in 1..Len(stage.items) |->
                  FeatureErrors(stage.items[j], index, j - 1)])

\* templates.ts:739-795
validateFeatures(features) ==
  IF features.t # "array"
  THEN Invalid(<<ValidationError("features", "features must be an array")>>)
  ELSE ValidationResult(
         (IF Len(features.items) # FEATURE_STAGES
          THEN <<ValidationError("features",
                                 "features array should have exactly 10 stages (0-9)")>>
          ELSE <<>>)
         \o Flatten([i \in 1..Len(features.items) |->
                       StageErrors(features.items[i], i - 1)]))

\* templates.ts:889-927
validateBlockId(blockId) ==
  IF blockId.t # "string"
  THEN Invalid(<<ValidationError("blockId", "Block ID must be a string")>>)
  ELSE IF ~IncludesColon(blockId)
  THEN Invalid(<<ValidationError("blockId", "Block ID must be namespaced")>>)
  ELSE ValidationResult(
         IF TextOf(blockId) \notin KNOWN_BLOCKS /\ StartsWithMinecraft(blockId)
         THEN <<ValidationError("blockId",
                   "Block ID not in common blocks list (may still be valid)")>>
         ELSE <<>>)

EntryFields == <<"type", "weight", "minCount", "maxCount">>

\* templates.ts:1023-1049
TypeErrors(spawnEntry, path) ==
  LET type == Get(spawnEntry, "type")
  IN IF ~HasKey(spawnEntry, "type") THEN <<>>
     ELSE IF type.t # "string"
     THEN <<ValidationError(path \o ".type", "Mob type must be a string")>>
     ELSE IF ~IncludesColon(type)
     THEN <<ValidationError(path \o ".type", "Mob type must be namespaced")>>
     ELSE IF TextOf(type) \notin KNOWN_MOBS
     THEN <<ValidationError(path \o ".type",
               "Mob type not in known mobs list (may still be valid)")>>
     ELSE <<>>

\* templates.ts:1052-1107: weight within 1..1000, the counts within 1..10
BoundedIntegerErrors(spawnEntry, path, field, max) ==
  LET x == Get(spawnEntry, field)
  IN IF ~HasKey(spawnEntry, field) THEN <<>>
     ELSE IF ~IsInteger(x)
     THEN <<ValidationError(path \o "." \o field, field \o " must be an integer")>>
     ELSE IF LessThan(x, 1) \/ GreaterThan(x, max)
     THEN <<ValidationError(path \o "." \o field, field \o " out of range")>>
     ELSE <<>>

MinMaxMessage == "minCount must be less than or equal to maxCount"

\* templates.ts:1109-1121
MinMaxErrors(spawnEntry, path) ==
  IF /\ HasKey(spawnEntry, "minCount")
     /\ HasKey(spawnEntry, "maxCount")
     /\ Get(spawnEntry, "minCount").t = "number"
     /\ Get(spawnEntry, "maxCount").t = "number"
     /\ Greater(Get(spawnEntry, "minCount"), Get(spawnEntry, "maxCount"))
  THEN <<ValidationError(path \o ".minCount", MinMaxMessage)>>
  ELSE <<>>

\* templates.ts:997-1124
validateSpawnEntry(entry, path) ==
  IF ~IsObject(entry)
  THEN <<ValidationError(path, "Spawn entry must be an object")>>
  ELSE Flatten([i \in 1..Len(EntryFields) |->
                  IF HasKey(entry, EntryFields[i]) THEN <<>>
                  ELSE <<ValidationError(path \o "." \o EntryFields[i],
                                         "Required field is missing in spawn entry")>>])
       \o TypeErrors(entry, path)
       \o BoundedIntegerErrors(entry, path, "weight", 1000)
       \o BoundedIntegerErrors(entry, path, "minCount", 10)
       \o BoundedIntegerErrors(entry, path, "maxCount", 10)
       \o MinMaxErrors(entry, path)

\* templates.ts:948-954
RequiredCategories ==
  <<"monster", "creature", "ambient", "water_creature", "water_ambient">>

\* templates.ts:956-982, one round of the loop
CategoryErrors(spawnersObj, category) ==
  LET list == Get(spawnersObj, category)
      field == "spawners." \o category
  IN IF ~HasKey(spawnersObj, category)
     THEN <<ValidationError(field, "Required spawner category is missing")>>
     ELSE IF list.t # "array"
     THEN <<ValidationError(field, "Spawner category must be an array")>>
     ELSE Flatten([i \in 1..Len(list.items) |->
                     validateSpawnEntry(list.items[i],
                                        field \o "[" \o ToString(i - 1) \o "]")])

\* templates.ts:935-989
validateMobSpawns(spawns) ==
  IF ~IsObject(spawns)
  THEN Invalid(<<ValidationError("spawners", "Spawners must be an object")>>)
  ELSE ValidationResult(
         Flatten([i \in 1..Len(RequiredCategories) |->
                    CategoryErrors(spawns, RequiredCategories[i])]))

RequiredFields ==
  <<"has_precipitation", "temperature", "downfall", "effects",
    "surface_builder", "features", "spawners">>

\* templates.ts:559-678
validateBiomeStructure(biomeJson) ==
  IF ~IsObject(biomeJson)
  THEN Invalid(<<ValidationError("root", "Biome must be an object")>>)
  ELSE LET biome == biomeJson
           missing ==
             Flatten([i \in 1..Len(RequiredFields) |->
                        IF HasKey(biome, RequiredFields[i]) THEN <<>>
                        ELSE <<ValidationError(RequiredFields[i],
                                               "Required field missing")>>])
           precipitation ==
             IF HasKey(biome, "has_precipitation")
                /\ Get(biome, "has_precipitation").t # "boolean"
             THEN <<ValidationError("has_precipitation",
                                    "has_precipitation must be a boolean")>>
             ELSE <<>>
           temperature ==
             IF HasKey(biome, "temperature")
             THEN validateTemperature(Get(biome, "temperature")).errors
             ELSE <<>>
           downfall ==
             IF HasKey(biome, "downfall") /\ Get(biome, "downfall").t = "number"
             THEN IF LessThan(Get(biome, "downfall"), 0)
                     \/ GreaterThan(Get(biome, "downfall"), 1)
                  THEN <<ValidationError("downfall",
                                         "Downfall must be between 0.0 and 1.0")>>
                  ELSE <<>>
             ELSE IF HasKey(biome, "downfall")
             THEN <<ValidationError("downfall", "Downfall must be a number")>>
             ELSE <<>>
           effects ==
             IF HasKey(biome, "effects")
             THEN validateEffects(Get(biome, "effects")).errors
             ELSE <<>>
           surface ==
             IF HasKey(biome, "surface_builder")
                /\ Get(biome, "surface_builder").t = "string"
             THEN IF TextOf(Get(biome, "surface_builder")) \notin KNOWN_SURFACE_BUILDERS
                  THEN <<ValidationError("surface_builder",
                            "Unknown surface builder (may be valid but not in common list)")>>
                  ELSE <<>>
             ELSE IF HasKey(biome, "surface_builder")
             THEN <<ValidationError("surface_builder",
                                    "surface_builder must be a string")>>
             ELSE <<>>
           features ==
             IF HasKey(biome, "features")
             THEN validateFeatures(Get(biome, "features")).errors
             ELSE <<>>
           spawners ==
             IF HasKey(biome, "spawners")
             THEN validateMobSpawns(Get(biome, "spawners")).errors
             ELSE <<>>
       IN ValidationResult(missing \o precipitation \o temperature \o downfall
                           \o effects \o surface \o features \o spawners)

\* ---- inputs of the validators
SpawnEntry(type, weight, minCount, maxCount) ==
  [t |-> "object", type |-> type, weight |-> weight,
   minCount |-> minCount, maxCount |-> maxCount]

Zombie == SpawnEntry(Id("minecraft", "zombie"), JNum(100), JNum(4), JNum(4))

ValidEffects ==
  [t |-> "object", sky_color |-> JNum(7907327), fog_color |-> JNum(12638463),
   water_color |-> JNum(4159204), water_fog_color |-> JNum(329011)]

ValidSpawners ==
  [t |-> "object", monster |-> JArr(<<Zombie>>), creature |-> JArr(<<>>),
   ambient |-> JArr(<<>>), water_creature |-> JArr(<<>>),
   water_ambient |-> JArr(<<>>), misc |-> JUndef]

\* n stages, the last one with one feature
StagesOf(n, feature) ==
  JArr([i \in 1..n |-> IF i = n THEN JArr(<<feature>>) ELSE JArr(<<>>)])

\* a biome that validateBiomeStructure accepts
ValidBiome ==
  [t |-> "object", has_precipitation |-> JBool, temperature |-> JFrac(0),
   downfall |-> JFrac(0), effects |-> ValidEffects,
   surface_builder |-> Id("minecraft", "grass"),
   features |-> StagesOf(FEATURE_STAGES, Id("minecraft", "freeze_top_layer")),
   spawners |-> ValidSpawners]

NonObjects == {JNum(5), Plain("biome"), JBool, JUndef, JNull}

TemperatureInputs ==
  {JFrac(-3), JNum(-2), JFrac(0), JNum(2), JFrac(2), Plain("warm"), JNaN}
DownfallInputs ==
  {JFrac(-1), JNum(0), JFrac(0), JNum(1), JFrac(1), Plain("wet"), JNaN}
ColorInputs ==
  {JUndef, JNum(-1), JNum(0), JNum(COLOR_MAX), JNum(COLOR_MAX + 1), JFrac(255),
   Plain("#78a7ff"), JNaN}
SurfaceInputs ==
  {Id("minecraft", "grass"), Id("minecraft", "meadow"), Id("mymod", "dunes"),
   Plain("grass"), JNum(1)}
FeatureInputs ==
  {JNull, JArr(<<Plain("trees")>>)}
    \cup { StagesOf(n, Id("minecraft", "freeze_top_layer")) : n \in StageCounts }
    \cup { StagesOf(FEATURE_STAGES, x) : x \in {Plain("trees"), JNum(3)} }

WeightInputs == {JNum(0), JNum(1), JNum(1000), JNum(1001), JFrac(1), JNaN, JUndef}
CountInputs == {JNum(0), JNum(1), JNum(2), JNum(10), JNum(11), JFrac(1), JNaN,
                Plain("2"), JUndef}
TypeInputs ==
  {Id("minecraft", "zombie"), Id("minecraft", "unicorn"), Id("mymod", "golem"),
   Plain("zombie"), JNum(7), JUndef}

SpawnEntryInputs ==
  { SpawnEntry(Id("minecraft", "zombie"), JNum(100), mn, mx) :
      mn \in CountInputs, mx \in CountInputs }
    \cup { SpawnEntry(Id("minecraft", "zombie"), w, JNum(2), JNum(4)) :
             w \in WeightInputs }
    \cup { SpawnEntry(type, JNum(100), JNum(2), JNum(4)) : type \in TypeInputs }
    \cup { JNull, JNum(1) }

\* a spawners object: the base with an entry added to one category, with a
\* category missing, with a category that is no array
SpawnerInputs ==
  { [ValidSpawners EXCEPT ![c] = JArr(<<Zombie, e>>)] :
      c \in {"monster", "water_ambient", "misc"}, e \in SpawnEntryInputs }
    \cup { [ValidSpawners EXCEPT ![c] = x] :
             c \in {"creature", "misc"}, x \in {JUndef, JNum(1)} }
    \cup { ValidSpawners, JNull, JNum(1) }

BlockIdInputs ==
  {Id("minecraft", "stone"), Id("minecraft", "unobtainium"),
   Id("mymod", "ruby_block"), Plain("stone"), JNum(1), JUndef}

BiomeInputs ==
  NonObjects \cup {JArr(<<>>)}
    \cup { [ValidBiome EXCEPT !.temperature = x, !.downfall = y,
                              !.effects.sky_color = z] :
             x \in TemperatureInputs, y \in DownfallInputs, z \in ColorInputs }
    \cup { [ValidBiome EXCEPT !.effects[c] = z] :
             c \in {"fog_color", "water_color", "water_fog_color"},
             z \in ColorInputs }
    \cup { [ValidBiome EXCEPT ![f] = JUndef] :
             f \in {"has_precipitation", "temperature", "downfall", "effects",
                    "surface_builder", "features", "spawners"} }
    \cup { [ValidBiome EXCEPT !.has_precipitation = Plain("true")],
           [ValidBiome EXCEPT !.effects = JNum(1)] }
    \cup { [ValidBiome EXCEPT !.surface_builder = x] : x \in SurfaceInputs }
    \cup { [ValidBiome EXCEPT !.features = x] : x \in FeatureInputs }
    \cup { [ValidBiome EXCEPT !.spawners = x] : x \in SpawnerInputs }

\* ------------------------------------------------------------ builders
\* templates.ts:31-61
STANDARD_ORES ==
  <<Id("minecraft", "ore_dirt"), Id("minecraft", "ore_gravel"),
    Id("minecraft", "ore_granite_upper"),
    Id("minecraft", "ore_granite_lower"),
    Id("minecraft", "ore_diorite_upper"),
    Id("minecraft", "ore_diorite_lower"),
    Id("minecraft", "ore_andesite_upper"),
    Id("minecraft", "ore_andesite_lower"), Id("minecraft", "ore_tuff"),
    Id("minecraft", "ore_coal_upper"), Id("minecraft", "ore_coal_lower"),
    Id("minecraft", "ore_iron_upper"), Id("minecraft", "ore_iron_middle"),
    Id("minecraft", "ore_iron_small"), Id("minecraft", "ore_gold"),
    Id("minecraft", "ore_gold_lower"), Id("minecraft", "ore_redstone"),
    Id("minecraft", "ore_redstone_lower"), Id("minecraft", "ore_diamond"),
    Id("minecraft", "ore_diamond_medium"),
    Id("minecraft", "ore_diamond_large"),
    Id("minecraft", "ore_diamond_buried"), Id("minecraft", "ore_lapis"),
    Id("minecraft", "ore_lapis_buried"), Id("minecraft", "ore_copper"),
    Id("minecraft", "underwater_magma"), Id("minecraft", "disk_sand"),
    Id("minecraft", "disk_clay"), Id("minecraft", "disk_gravel")>>

\* biomeSchema.ts:126 `.length(11, ...)`
FEATURE_STEPS == 11

createFeatureArrayTenStages(vegetalDecorations) ==
  JArr(<<JArr(<<>>),
         JArr(<<Id("minecraft", "lake_lava_underground"),
                Id("minecraft", "lake_lava_surface")>>),
         JArr(<<Id("minecraft", "amethyst_geode")>>),
         JArr(<<Id("minecraft", "monster_room"), Id("minecraft", "monster_room_deep")>>),
         JArr(<<>>),
         JArr(<<>>),
         JArr(STANDARD_ORES),
         JArr(<<Id("minecraft", "ore_infested")>>),
         JArr(<<Id("minecraft", "spring_water"), Id("minecraft", "spring_lava")>>),
         JArr(vegetalDecorations)>>)

\* templates.ts:212-224: the eleven stages, 0 to 10
createFeatureArray(vegetalDecorations) ==
  JArr(<<JArr(<<>>),
         JArr(<<Id("minecraft", "lake_lava_underground"),
                Id("minecraft", "lake_lava_surface")>>),
         JArr(<<Id("minecraft", "amethyst_geode")>>),
         JArr(<<Id("minecraft", "monster_room"), Id("minecraft", "monster_room_deep")>>),
         JArr(<<>>),
         JArr(<<>>),
         JArr(STANDARD_ORES),
         JArr(<<Id("minecraft", "ore_infested")>>),
         JArr(<<Id("minecraft", "spring_water"), Id("minecraft", "spring_lava")>>),
         JArr(vegetalDecorations),
         JArr(<<Id("minecraft", "freeze_top_layer")>>)>>)

\* base-biome.ts:16-86, baseBiome.features
BaseBiomeFeatures ==
  JArr(<<JArr(<<>>),
         JArr(<<Id("minecraft", "lake_lava_underground"),
            Id("minecraft", "lake_lava_surface")>>),
         JArr(<<Id("minecraft", "amethyst_geode")>>),
         JArr(<<Id("minecraft", "monster_room"),
            Id("minecraft", "monster_room_deep")>>),
         JArr(<<>>),
         JArr(<<>>),
         JArr(STANDARD_ORES),
         JArr(<<>>),
         JArr(<<Id("minecraft", "spring_water"), Id("minecraft", "spring_lava")>>),
         JArr(<<Id("minecraft", "glow_lichen"),
            Id("minecraft", "patch_tall_grass_2"),
            Id("minecraft", "flower_default"),
            Id("minecraft", "patch_grass_plain"),
            Id("minecraft", "brown_mushroom_normal"),
            Id("minecraft", "red_mushroom_normal"),
            Id("minecraft", "patch_sugar_cane")>>),
         JArr(<<Id("minecraft", "freeze_top_layer")>>)>>)

\* biomeSchema.ts:126 z.array(z.array(z.string())).length(11, ...)
FeatureStepsCheck(features) ==
  /\ FeatureStages(features)
  /\ Len(features.items) = FEATURE_STEPS

\* ---- inputs of the builders
MaxDecorations == 2
Decorations ==
  {Id("minecraft", "trees_plains"), Id("minecraft", "flower_default"),
   Plain("cactus")}
DecorationLists ==
  UNION { [1..n -> Decorations] : n \in 0..MaxDecorations }

\* templates.ts:129-182
MOB_SPAWNERS ==
  [peaceful |->
     [creature |->
         JArr(<<SpawnEntry(Id("minecraft", "sheep"), JNum(12), JNum(4), JNum(4)),
               SpawnEntry(Id("minecraft", "rabbit"), JNum(4), JNum(2), JNum(3))>>),
      monster |->
         JArr(<<>>)],
   standard |->
     [creature |->
         JArr(<<SpawnEntry(Id("minecraft", "sheep"), JNum(12), JNum(4), JNum(4)),
               SpawnEntry(Id("minecraft", "pig"), JNum(10), JNum(4), JNum(4)),
               SpawnEntry(Id("minecraft", "chicken"), JNum(10), JNum(4), JNum(4)),
               SpawnEntry(Id("minecraft", "cow"), JNum(8), JNum(4), JNum(4))>>),
      monster |->
         JArr(<<SpawnEntry(Id("minecraft", "spider"), JNum(100), JNum(4), JNum(4)),
               SpawnEntry(Id("minecraft", "zombie"), JNum(95), JNum(4), JNum(4)),
               SpawnEntry(Id("minecraft", "zombie_villager"), JNum(5), JNum(1), JNum(1)),
               SpawnEntry(Id("minecraft", "skeleton"), JNum(100), JNum(4), JNum(4)),
               SpawnEntry(Id("minecraft", "creeper"), JNum(100), JNum(4), JNum(4)),
               SpawnEntry(Id("minecraft", "slime"), JNum(100), JNum(4), JNum(4)),
               SpawnEntry(Id("minecraft", "enderman"), JNum(10), JNum(1), JNum(4)),
               SpawnEntry(Id("minecraft", "witch"), JNum(5), JNum(1), JNum(1))>>)],
   hostile |->
     [creature |->
         JArr(<<>>),
      monster |->
         JArr(<<SpawnEntry(Id("minecraft", "spider"), JNum(100), JNum(4), JNum(4)),
               SpawnEntry(Id("minecraft", "zombie"), JNum(100), JNum(4), JNum(4)),
               SpawnEntry(Id("minecraft", "skeleton"), JNum(100), JNum(4), JNum(4)),
               SpawnEntry(Id("minecraft", "creeper"), JNum(100), JNum(4), JNum(4)),
               SpawnEntry(Id("minecraft", "enderman"), JNum(20), JNum(2), JNum(4)),
               SpawnEntry(Id("minecraft", "witch"), JNum(10), JNum(1), JNum(2))>>)],
   desert |->
     [creature |->
         JArr(<<SpawnEntry(Id("minecraft", "rabbit"), JNum(4), JNum(2), JNum(4))>>),
      monster |->
         JArr(<<SpawnEntry(Id("minecraft", "spider"), JNum(100), JNum(4), JNum(4)),
               SpawnEntry(Id("minecraft", "zombie"), JNum(19), JNum(4), JNum(4)),
               SpawnEntry(Id("minecraft", "zombie_villager"), JNum(1), JNum(1), JNum(1)),
               SpawnEntry(Id("minecraft", "skeleton"), JNum(100), JNum(4), JNum(4)),
               SpawnEntry(Id("minecraft", "creeper"), JNum(100), JNum(4), JNum(4)),
               SpawnEntry(Id("minecraft", "slime"), JNum(100), JNum(4), JNum(4)),
               SpawnEntry(Id("minecraft", "enderman"), JNum(10), JNum(1), JNum(4)),
               SpawnEntry(Id("minecraft", "witch"), JNum(5), JNum(1), JNum(1)),
               SpawnEntry(Id("minecraft", "husk"), JNum(80), JNum(4), JNum(4))>>)]]

\* templates.ts:187-207
AMBIENT_SPAWNS ==
  <<SpawnEntry(Id("minecraft", "bat"), JNum(10), JNum(8), JNum(8))>>
UNDERGROUND_WATER_SPAWNS ==
  <<SpawnEntry(Id("minecraft", "glow_squid"), JNum(10), JNum(4), JNum(6))>>

\* templates.ts:21-25
STANDARD_CARVERS ==
  <<Id("minecraft", "cave"), Id("minecraft", "cave_extra_underground"),
    Id("minecraft", "canyon")>>

\* templates.ts:230-235, COLOR_PALETTES.standard
StandardPalette ==
  [sky_color |-> Plain("#78a7ff"), water_color |-> Plain("#3f76e4"),
   water_fog_color |-> Plain("#050533"), fog_color |-> Plain("#c0d8ff")]

\* a number given in tenths, so that 1.5 can be compared with
Tenths(n) == [t |-> "number", tenths |-> n]
\* x <= k/10 and x > k/10; false for NaN
AtMostTenths(x, k) == x # JNaN /\ x.tenths <= k
AboveTenths(x, k) == x # JNaN /\ x.tenths > k

BoolOf(b) == [t |-> "boolean", b |-> b]
EmptyObject == [t |-> "object"]

TruthyWhenDefined(x) == x # JUndef

\* whether `x || d` and `x && y` take x for true, for x a string or undefined
Truthy(x) == x.t = "string" /\ TextOf(x) # ""

\* x || d
OrDefault(x, d) == IF Truthy(x) THEN x ELSE d
\* ...(x && { key: x }): the key's value, JUndef when the key is not added
WhenTruthy(x) == IF Truthy(x) THEN x ELSE JUndef

\* templates.ts:346-370: biome.attributes, JUndef when it is not added
AttributesOf(music, hasSnowGolemMelts, colors) ==
  IF Truthy(music) \/ hasSnowGolemMelts # JUndef \/ Truthy(Get(colors, "sky_color"))
  THEN [t |-> "object",
        background_music |->
          IF Truthy(music)
          THEN [t |-> "object", max_delay |-> JNum(24000),
                min_delay |-> JNum(12000), sound |-> music]
          ELSE JUndef,
        snow_golem_melts |-> hasSnowGolemMelts,
        sky_color |-> WhenTruthy(Get(colors, "sky_color")),
        water_fog_color |-> WhenTruthy(Get(colors, "water_fog_color"))]
  ELSE JUndef

\* templates.ts:289-373
createBiomeConfig(options) ==
  LET temperature == options.temperature
      downfall == options.downfall
      colors == IF options.colors = JUndef THEN EmptyObject ELSE options.colors
      spawnerType == IF options.spawnerType = JUndef THEN "standard"
                     ELSE TextOf(options.spawnerType)
      defaultColors == StandardPalette
      spawners == MOB_SPAWNERS[spawnerType]
  IN [t |-> "object",
      temperature |-> temperature,
      downfall |-> downfall,
      has_precipitation |->
        BoolOf(AtMostTenths(temperature, 15) /\ AboveTenths(downfall, 0)),
      carvers |-> JArr(STANDARD_CARVERS),
      effects |->
        [t |-> "object",
         water_color |->
           OrDefault(Get(colors, "water_color"), defaultColors.water_color),
         water_fog_color |->
           OrDefault(Get(colors, "water_fog_color"), defaultColors.water_fog_color),
         fog_color |-> OrDefault(Get(colors, "fog_color"), defaultColors.fog_color),
         sky_color |-> OrDefault(Get(colors, "sky_color"), defaultColors.sky_color),
         foliage_color |-> WhenTruthy(Get(colors, "foliage_color")),
         grass_color |-> WhenTruthy(Get(colors, "grass_color"))],
      features |-> createFeatureArray(options.vegetalDecorations),
      spawn_costs |-> EmptyObject,
      spawners |->
        [t |-> "object",
         ambient |-> JArr(AMBIENT_SPAWNS),
         axolotls |-> JArr(<<>>),
         creature |-> spawners.creature,
         misc |-> JArr(<<>>),
         monster |-> spawners.monster,
         underground_water_creature |-> JArr(UNDERGROUND_WATER_SPAWNS),
         water_ambient |-> JArr(<<>>),
         water_creature |-> JArr(<<>>)],
      attributes |->
        AttributesOf(options.music, options.hasSnowGolemMelts, colors)]

ColorKeys ==
  {"sky_color", "water_color", "water_fog_color", "fog_color",
   "foliage_color", "grass_color"}
\* what a caller may give for one color: nothing, the empty string, a color
ColorChoices == {JUndef, Plain(""), Plain("#112233")}
NoColors ==
  [t |-> "object", sky_color |-> JUndef, water_color |-> JUndef,
   water_fog_color |-> JUndef, fog_color |-> JUndef, foliage_color |-> JUndef,
   grass_color |-> JUndef]
\* colors: absent, one key varied, and three keys varied together
ColorOptions ==
  {JUndef}
    \cup { [NoColors EXCEPT ![k] = x] : k \in ColorKeys, x \in ColorChoices }
    \cup { [NoColors EXCEPT !.sky_color = x, !.water_fog_color = y,
                            !.foliage_color = z] :
             x \in ColorChoices, y \in ColorChoices, z \in ColorChoices }
SpawnerTypes ==
  {JUndef, Plain("peaceful"), Plain("standard"), Plain("hostile"), Plain("desert")}
\* -0.5, 0, 0.1, 1.4, 1.5, 1.6, 2 and NaN
ClimateValues ==
  {Tenths(-5), Tenths(0), Tenths(1), Tenths(14), Tenths(15), Tenths(16),
   Tenths(20), JNaN}

BaseOptions ==
  [temperature |-> Tenths(8), downfall |-> Tenths(4),
   vegetalDecorations |-> <<Id("minecraft", "trees_plains")>>,
   colors |-> JUndef, spawnerType |-> JUndef, music |-> JUndef,
   hasSnowGolemMelts |-> JUndef]

OptionInputs ==
  { [BaseOptions EXCEPT !.colors = c, !.spawnerType = s] :
      c \in ColorOptions, s \in SpawnerTypes }
    \cup { [BaseOptions EXCEPT !.temperature = x, !.downfall = y] :
             x \in ClimateValues, y \in ClimateValues }
    \cup { [BaseOptions EXCEPT !.colors = c, !.music = m, !.hasSnowGolemMelts = g] :
             c \in ColorOptions,
             m \in {JUndef, Id("minecraft", "music.overworld.meadow")},
             g \in {JUndef, BoolOf(TRUE), BoolOf(FALSE)} }

\* ------------------------------------------------------------ state
VARIABLES
  now,           \* Date.now()
  rateLimitMap,  \* route.ts:18
  apiKeySet,     \* process.env.GEMINI_API_KEY is set
  pc,            \* where each POST handler is suspended
  client,        \* clientIP of the handler
  biomeName,     \* biomeName of the handler
  attempt,       \* attempt of generateBiomeFromDescription
  lastError,     \* lastError of generateBiomeFromDescription
  delay,         \* the argument of the pending sleep
  biomeConfig,   \* validatedBiome of the handler
  response,      \* the Response the handler returned
  ran,           \* history: the stages the handler has entered, in order
  failed,        \* history: the stage that failed ("" none, "other" outer catch)
  produced,      \* history: documents JSON.parse produced for the handler
  validations,   \* history: BiomeSchema.parse calls on the current document
  archive,       \* history: the document in the handler's archive, if any
  passed,        \* history: requests of a client admitted in its current entry
  windowNo,      \* history: entries created for a client so far
  last429,       \* history: when the client's latest request got 429, else -1
  body,          \* history: the body the handler read
  calls,         \* history: model.generateContent calls made for the handler
  raised,        \* history: the error generateBiomeFromDescription threw
  reference,     \* history: the map of a limiter that is never cleaned up
  call           \* the latest call of a helper function, with its result

limiterVars == <<now, rateLimitMap, passed, windowNo, last429, reference>>
handlerVars == <<pc, client, biomeName, attempt, lastError, delay, biomeConfig,
                 response, ran, failed, produced, validations, archive,
                 body, calls, raised>>
vars == <<now, rateLimitMap, apiKeySet, pc, client, biomeName, attempt,
          lastError, delay, biomeConfig, response, ran, failed, produced,
          validations, archive, passed, windowNo, last429, body, calls,
          raised, reference, call>>

NoBody == [json |-> "none"]
NoCall == [fn |-> ""]

NoResponse == [status |-> 0, code |-> "", contentType |-> "", retryAfter |-> 0]
ErrorResponse(status, code) ==
  [status |-> status, code |-> code, contentType |-> "application/json",
   retryAfter |-> 0]
\* route.ts:109-121
RateLimitResponse ==
  [status |-> 429, code |-> "RATE_LIMIT_EXCEEDED",
   contentType |-> "application/json", retryAfter |-> RETRY_AFTER_S]
\* route.ts:306-318
ZipResponse ==
  [status |-> 200, code |-> "", contentType |-> "application/zip", retryAfter |-> 0]

InitHandlers ==
  /\ pc = [h \in Handlers |-> "idle"]
  /\ client = [h \in Handlers |-> ""]
  /\ biomeName = [h \in Handlers |-> <<>>]
  /\ attempt = [h \in Handlers |-> 0]
  /\ lastError = [h \in Handlers |-> NoError]
  /\ delay = [h \in Handlers |-> 0]
  /\ biomeConfig = [h \in Handlers |-> JUndef]
  /\ response = [h \in Handlers |-> NoResponse]
  /\ ran = [h \in Handlers |-> <<>>]
  /\ failed = [h \in Handlers |-> ""]
  /\ produced = [h \in Handlers |-> 0]
  /\ validations = [h \in Handlers |-> 0]
  /\ archive = [h \in Handlers |-> JUndef]
  /\ body = [h \in Handlers |-> NoBody]
  /\ calls = [h \in Handlers |-> 0]
  /\ raised = [h \in Handlers |-> NoError]
  /\ call = NoCall

InitLimiter ==
  /\ now = 0
  /\ rateLimitMap = << >>
  /\ passed = [c \in Clients |-> 0]
  /\ windowNo = [c \in Clients |-> 0]
  /\ last429 = [c \in Clients |-> -1]
  /\ reference = << >>

Init == InitLimiter /\ InitHandlers /\ apiKeySet \in BOOLEAN

\* ------------------------------------------------------------ actions
Finish(h, resp, stages, stage) ==
  /\ pc' = [pc EXCEPT ![h] = "done"]
  /\ response' = [response EXCEPT ![h] = resp]
  /\ ran' = [ran EXCEPT ![h] = ran[h] \o stages]
  /\ failed' = [failed EXCEPT ![h] = stage]

\* The clock moves on (Date.now() is taken to be monotonic).
Tick(t) ==
  /\ t > now
  /\ now' = t
  /\ UNCHANGED <<rateLimitMap, passed, windowNo, last429, reference, apiKeySet,
                 handlerVars, call>>

\* route.ts:64: the interval timer runs cleanupRateLimitMap; time 0 of the
\* model is no particular phase of the timer, so it may run at any instant
Cleanup ==
  /\ rateLimitMap' = cleanupRateLimitMap(rateLimitMap, now)
  /\ UNCHANGED <<now, passed, windowNo, last429, reference, apiKeySet,
                 handlerVars, call>>

\* route.ts:100-127: a request arrives; the handler runs to `await request.json()`
\* or returns 429
PostArrive(h, hdr) ==
  /\ pc[h] = "idle"
  /\ LET id == ClientIP(hdr)
         r == isRateLimited(rateLimitMap, id, now)
         created == \/ id \notin DOMAIN rateLimitMap
                    \/ r.map[id].resetTime # rateLimitMap[id].resetTime
     IN /\ rateLimitMap' = r.map
        /\ reference' = isRateLimited(reference, id, now).map
        /\ client' = [client EXCEPT ![h] = id]
        /\ IF r.limited
           THEN /\ Finish(h, RateLimitResponse, <<"rate">>, "rate")
                /\ last429' = [last429 EXCEPT ![id] = now]
                /\ UNCHANGED <<passed, windowNo>>
           ELSE /\ pc' = [pc EXCEPT ![h] = "json"]
                /\ ran' = [ran EXCEPT ![h] = <<"rate">>]
                /\ last429' = [last429 EXCEPT ![id] = -1]
                /\ passed' = [passed EXCEPT ![id] = IF created THEN 1 ELSE @ + 1]
                /\ windowNo' = [windowNo EXCEPT ![id] = IF created THEN @ + 1 ELSE @]
                /\ UNCHANGED <<response, failed>>
  /\ UNCHANGED <<now, apiKeySet, biomeName, attempt, lastError, delay,
                 biomeConfig, produced, validations, archive, body, calls,
                 raised, call>>

\* route.ts:124-219 and datapackGenerator.ts:606-625: the body is read and
\* checked; an accepted request calls generateBiomeFromDescription, which
\* runs to its first `await model.generateContent`
ReadBody(h, b) ==
  /\ pc[h] = "json"
  /\ body' = [body EXCEPT ![h] = b]
  /\ IF BodyError(b) # ""
     THEN /\ Finish(h, ErrorResponse(400, "INVALID_REQUEST"), <<"body">>, "body")
          /\ UNCHANGED <<biomeName, attempt, lastError, calls, raised>>
     ELSE /\ biomeName' = [biomeName EXCEPT ![h] = BiomeNameOf(b)]
          /\ IF ~apiKeySet
             THEN /\ Finish(h, ErrorResponse(500, AiErrorCode(MissingKeyError)),
                            <<"body", "ai">>, "ai")
                  /\ lastError' = [lastError EXCEPT ![h] = MissingKeyError]
                  /\ raised' = [raised EXCEPT ![h] = MissingKeyError]
                  /\ UNCHANGED <<attempt, calls>>
             ELSE /\ pc' = [pc EXCEPT ![h] = "generate"]
                  /\ attempt' = [attempt EXCEPT ![h] = 1]
                  /\ calls' = [calls EXCEPT ![h] = 1]
                  /\ ran' = [ran EXCEPT ![h] = ran[h] \o <<"body", "ai">>]
                  /\ UNCHANGED <<response, failed, lastError, raised>>
  /\ UNCHANGED <<limiterVars, apiKeySet, client, delay, biomeConfig, produced,
                 validations, archive, call>>

\* datapackGenerator.ts:625-690 and route.ts:219-272: the service answers one
\* attempt. On success the handler validates again and starts bundling, up
\* to `await zip.generateAsync`; on failure it sleeps or gives up.
AiRespond(h, out) ==
  /\ pc[h] = "generate"
  /\ LET err == AttemptError(out)
         docs == IF out.kind = "json" THEN 1 ELSE 0
         again == parseBiomeResponse(BiomeSchemaParse(out.doc))
     IN /\ produced' = [produced EXCEPT ![h] = @ + docs]
        /\ IF err = NoError
           THEN /\ validations' = [validations EXCEPT ![h] = 1 + again.parses]
                /\ attempt' = [attempt EXCEPT ![h] = 0]
                /\ lastError' = [lastError EXCEPT ![h] = NoError]
                /\ delay' = delay
                /\ raised' = raised
                /\ IF again.ok
                   THEN /\ pc' = [pc EXCEPT ![h] = "zip"]
                        /\ biomeConfig' = [biomeConfig EXCEPT ![h] = again.doc]
                        /\ archive' = [archive EXCEPT ![h] = again.doc]
                        /\ ran' = [ran EXCEPT ![h] = ran[h] \o <<"validate", "bundle">>]
                        /\ UNCHANGED <<response, failed>>
                   ELSE /\ Finish(h, ErrorResponse(500, "VALIDATION_ERROR"),
                                  <<"validate">>, "validate")
                        /\ UNCHANGED <<biomeConfig, archive>>
           ELSE /\ validations' = [validations EXCEPT ![h] = docs]
                /\ lastError' = [lastError EXCEPT ![h] = err]
                /\ UNCHANGED <<attempt, biomeConfig, archive>>
                /\ IF MoreAttempts(attempt[h])
                   THEN /\ pc' = [pc EXCEPT ![h] = "sleep"]
                        /\ delay' = [delay EXCEPT ![h] = RetryDelay(err, attempt[h])]
                        /\ UNCHANGED <<response, ran, failed, raised>>
                   ELSE /\ Finish(h, ErrorResponse(500, AiErrorCode(ExhaustedError(err))),
                                  <<>>, "ai")
                        /\ raised' = [raised EXCEPT ![h] = ExhaustedError(err)]
                        /\ delay' = delay
  /\ UNCHANGED <<limiterVars, apiKeySet, client, biomeName, body, calls, call>>

\* datapackGenerator.ts:671, 678: the sleep ends and the next attempt starts
SleepDone(h) ==
  /\ pc[h] = "sleep"
  /\ pc' = [pc EXCEPT ![h] = "generate"]
  /\ attempt' = [attempt EXCEPT ![h] = @ + 1]
  /\ calls' = [calls EXCEPT ![h] = @ + 1]
  /\ delay' = [delay EXCEPT ![h] = 0]
  /\ UNCHANGED <<limiterVars, apiKeySet, client, biomeName, lastError,
                 biomeConfig, response, ran, failed, produced, validations,
                 archive, body, raised, call>>

\* route.ts:266-334: zip.generateAsync settles; zipped says whether it
\* resolved, thrown whether building the Response then threw (the outer catch)
ZipDone(h, zipped, thrown) ==
  /\ pc[h] = "zip"
  /\ IF ~zipped
     THEN /\ Finish(h, ErrorResponse(500, "GENERATION_ERROR"), <<>>, "bundle")
          /\ archive' = [archive EXCEPT ![h] = JUndef]
     ELSE IF thrown
          THEN /\ Finish(h, ErrorResponse(500, "INTERNAL_ERROR"), <<>>, "other")
               /\ archive' = [archive EXCEPT ![h] = JUndef]
          ELSE /\ Finish(h, ZipResponse, <<>>, "")
               /\ archive' = archive
  /\ biomeConfig' = [biomeConfig EXCEPT ![h] = JUndef]
  /\ UNCHANGED <<limiterVars, apiKeySet, client, biomeName, attempt, lastError,
                 delay, produced, validations, body, calls, raised, call>>

\* route.ts:100: the returned promise has settled; the next call of POST is
\* a new activation
PostReturn(h) ==
  /\ pc[h] = "done"
  /\ pc' = [pc EXCEPT ![h] = "idle"]
  /\ client' = [client EXCEPT ![h] = ""]
  /\ biomeName' = [biomeName EXCEPT ![h] = <<>>]
  /\ attempt' = [attempt EXCEPT ![h] = 0]
  /\ lastError' = [lastError EXCEPT ![h] = NoError]
  /\ delay' = [delay EXCEPT ![h] = 0]
  /\ biomeConfig' = [biomeConfig EXCEPT ![h] = JUndef]
  /\ response' = [response EXCEPT ![h] = NoResponse]
  /\ ran' = [ran EXCEPT ![h] = <<>>]
  /\ failed' = [failed EXCEPT ![h] = ""]
  /\ produced' = [produced EXCEPT ![h] = 0]
  /\ validations' = [validations EXCEPT ![h] = 0]
  /\ archive' = [archive EXCEPT ![h] = JUndef]
  /\ body' = [body EXCEPT ![h] = NoBody]
  /\ calls' = [calls EXCEPT ![h] = 0]
  /\ raised' = [raised EXCEPT ![h] = NoError]
  /\ UNCHANGED <<limiterVars, apiKeySet, call>>

\* ------------------------------------------------------------ specifications
\* Spec: one handler at a time, every body and every answer of the service;
\* the requests carry no address header, and the clock shows a time in the
\* first rate-limit window or one after that window has expired.
NoHeaders == [xff |-> NoHeader, xri |-> NoHeader]
PipelineTimes == {0, RATE_LIMIT_WINDOW_MS + 1}

Next ==
  \/ \E t \in PipelineTimes : Tick(t)
  \/ Cleanup
  \/ PostArrive(1, NoHeaders)
  \/ \E b \in Bodies : ReadBody(1, b)
  \/ \E out \in AiOutcomes : AiRespond(1, out)
  \/ SleepDone(1)
  \/ \E zipped \in BOOLEAN, thrown \in BOOLEAN : ZipDone(1, zipped, thrown)
  \/ PostReturn(1)

Spec == Init /\ [][Next]_vars

\* SpecLimiter: concurrent handlers and every client address; the handlers
\* never touch rateLimitMap after the rate check, so the bodies are
\* limited to one that is rejected at once.
NextLimiter ==
  \/ \E t \in TimePoints : Tick(t)
  \/ Cleanup
  \/ \E h \in Handlers, hdr \in Headers : PostArrive(h, hdr)
  \/ \E h \in Handlers : ReadBody(h, InvalidJson)
  \/ \E h \in Handlers : PostReturn(h)

InitKeySet == InitLimiter /\ InitHandlers /\ apiKeySet = TRUE

SpecLimiter == InitKeySet /\ [][NextLimiter]_vars

\* SpecRetry: one handler within one rate-limit window, a body that is
\* rejected and one that is accepted; every call of the service settles and
\* every timer fires.
RetryBodies ==
  {InvalidJson,
   Body(DStr(<<" "," ","I","c","y"," ","p","e","a","k"," ","l","a","n","d","!">>, 0),
        JUndef)}

NextRetry ==
  \/ PostArrive(1, NoHeaders)
  \/ \E b \in RetryBodies : ReadBody(1, b)
  \/ \E out \in AiOutcomes : AiRespond(1, out)
  \/ SleepDone(1)
  \/ \E zipped \in BOOLEAN, thrown \in BOOLEAN : ZipDone(1, zipped, thrown)
  \/ PostReturn(1)

SpecRetry ==
  /\ Init /\ [][NextRetry]_vars
  /\ WF_vars(\E out \in AiOutcomes : AiRespond(1, out))
  /\ WF_vars(SleepDone(1))

\* SpecConcurrent: two handlers of one client run side by side through
\* every await of POST; a rejected and an accepted body, a service that
\* fails with a rate-limit error or answers with a valid document.
ConcurrentOutcomes ==
  {[kind |-> "throw", rl |-> TRUE], [kind |-> "json", doc |-> BaseDoc]}

NextConcurrent ==
  \/ \E t \in TimePoints : Tick(t)
  \/ Cleanup
  \/ \E h \in Handlers : PostArrive(h, NoHeaders)
  \/ \E h \in Handlers, b \in RetryBodies : ReadBody(h, b)
  \/ \E h \in Handlers, out \in ConcurrentOutcomes : AiRespond(h, out)
  \/ \E h \in Handlers : SleepDone(h)
  \/ \E h \in Handlers, zipped \in BOOLEAN : ZipDone(h, zipped, FALSE)
  \/ \E h \in Handlers : PostReturn(h)

SpecConcurrent == InitKeySet /\ [][NextConcurrent]_vars

\* SpecHelpers: the exported helper functions, called on their own, one
\* call after the other
Sanitize(name) ==
  /\ call = NoCall
  /\ call' = [fn |-> "sanitizeBiomeName", arg |-> name,
              result |-> sanitizeBiomeName(name)]
  /\ UNCHANGED <<limiterVars, apiKeySet, handlerVars>>

Pack(r, g, b) ==
  /\ call = NoCall
  /\ call' = [fn |-> "rgbToInt", arg |-> <<r, g, b>>, result |-> rgbToInt(r, g, b)]
  /\ UNCHANGED <<limiterVars, apiKeySet, handlerVars>>

Unpack(color) ==
  /\ call = NoCall
  /\ call' = [fn |-> "intToRgb", arg |-> color, result |-> intToRgb(color)]
  /\ UNCHANGED <<limiterVars, apiKeySet, handlerVars>>

HelperReturn ==
  /\ call # NoCall
  /\ call' = NoCall
  /\ UNCHANGED <<limiterVars, apiKeySet, handlerVars>>

NextHelpers ==
  \/ \E name \in NameInputs : Sanitize(name)
  \/ \E r \in ComponentValues, g \in ComponentValues, b \in ComponentValues :
       Pack(r, g, b)
  \/ \E color \in PackedColors : Unpack(color)
  \/ HelperReturn

SpecHelpers == InitKeySet /\ [][NextHelpers]_vars

\* SpecTemplates: the validators and builders of templates.ts, one call at
\* a time.
ValidateBiome(biomeJson) ==
  /\ call = NoCall
  /\ call' = [fn |-> "validateBiomeStructure", arg |-> biomeJson,
              result |-> validateBiomeStructure(biomeJson)]
  /\ UNCHANGED <<limiterVars, apiKeySet, handlerVars>>

ValidateSpawns(spawns) ==
  /\ call = NoCall
  /\ call' = [fn |-> "validateMobSpawns", arg |-> spawns,
              result |-> validateMobSpawns(spawns)]
  /\ UNCHANGED <<limiterVars, apiKeySet, handlerVars>>

ValidateBlock(blockId) ==
  /\ call = NoCall
  /\ call' = [fn |-> "validateBlockId", arg |-> blockId,
              result |-> validateBlockId(blockId)]
  /\ UNCHANGED <<limiterVars, apiKeySet, handlerVars>>

CreateFeatures(vegetalDecorations) ==
  /\ call = NoCall
  /\ call' = [fn |-> "createFeatureArray", arg |-> vegetalDecorations,
              result |-> createFeatureArray(vegetalDecorations)]
  /\ UNCHANGED <<limiterVars, apiKeySet, handlerVars>>

CreateConfig(options) ==
  /\ call = NoCall
  /\ call' = [fn |-> "createBiomeConfig", arg |-> options,
              result |-> createBiomeConfig(options)]
  /\ UNCHANGED <<limiterVars, apiKeySet, handlerVars>>

NextTemplates ==
  \/ \E biomeJson \in BiomeInputs : ValidateBiome(biomeJson)
  \/ \E options \in OptionInputs : CreateConfig(options)
  \/ \E vegetalDecorations \in DecorationLists :
       CreateFeatures(vegetalDecorations)
  \/ \E spawns \in SpawnerInputs : ValidateSpawns(spawns)
  \/ \E blockId \in BlockIdInputs : ValidateBlock(blockId)
  \/ HelperReturn

SpecTemplates == InitKeySet /\ [][NextTemplates]_vars

\* ------------------------------------------------------------ rate-limit claims
\* The step is the rate check of a request that handler h has just received.
Arrives(h) == pc[h] = "idle" /\ pc'[h] # "idle"
Admitted(h) == pc'[h] = "json"
Rejected(h) == pc'[h] = "done" /\ response'[h] = RateLimitResponse
\* the client's entry exists and its window has not expired
Live(c) == c \in DOMAIN rateLimitMap /\ now <= rateLimitMap[c].resetTime

\* C1: within one window of a client (from the request that creates or
\* resets its entry until resetTime) at most RATE_LIMIT_MAX requests pass
\* the rate check, and once that many have passed every further request
\* inside the window is answered 429 RATE_LIMIT_EXCEEDED.
C1_AtMostMaxPerWindow ==
  [][\A h \in Handlers : Arrives(h) =>
       LET c == client'[h]
       IN /\ passed'[c] <= RATE_LIMIT_MAX
          /\ (Live(c) /\ passed[c] >= RATE_LIMIT_MAX) =>
               (Rejected(h) /\ response'[h].status = 429 /\ passed'[c] = passed[c])
          /\ Admitted(h) \/ Rejected(h)]_vars

\* the 11th request of a window has been answered 429
C1_Witness ==
  \E h \in Handlers :
    /\ pc[h] = "done" /\ response[h].code = "RATE_LIMIT_EXCEEDED"
    /\ passed[client[h]] = RATE_LIMIT_MAX
    /\ rateLimitMap[client[h]].count = RATE_LIMIT_MAX

\* C2: a request that finds the client's window expired (now > resetTime)
\* is admitted whatever the old count, and the entry becomes count = 1,
\* resetTime = now + 60000; a request at exactly resetTime is judged
\* against the old entry.
C2_ExpiredWindowReset ==
  [][\A h \in Handlers : Arrives(h) =>
       LET c == client'[h]
       IN c \in DOMAIN rateLimitMap =>
            LET old == rateLimitMap[c]
            IN /\ now > old.resetTime =>
                    /\ Admitted(h)
                    /\ rateLimitMap'[c] = [count |-> 1, resetTime |-> now + 60000]
               /\ now = old.resetTime =>
                    IF old.count >= RATE_LIMIT_MAX
                    THEN Rejected(h) /\ rateLimitMap' = rateLimitMap
                    ELSE /\ Admitted(h)
                         /\ rateLimitMap'[c] =
                              [count |-> old.count + 1, resetTime |-> old.resetTime]]_vars

\* one client's full window expired and its next request opened a new one,
\* while another client was turned away at exactly its resetTime
C2_Witness ==
  \E a \in Clients, b \in Clients, h \in Handlers :
    /\ a # b
    /\ a \in DOMAIN rateLimitMap /\ b \in DOMAIN rateLimitMap
    /\ pc[h] = "json" /\ client[h] = a /\ windowNo[a] = 2
    /\ rateLimitMap[a] = [count |-> 1, resetTime |-> now + RATE_LIMIT_WINDOW_MS]
    /\ last429[b] = now /\ rateLimitMap[b].resetTime = now

\* C3: while a client's window has not expired, a request of that client
\* never changes the entry's resetTime; an admitted request changes only
\* that entry's count, by +1, and a rejected request changes nothing in
\* rateLimitMap.
C3_FixedWindow ==
  [][\A h \in Handlers : Arrives(h) =>
       LET c == client'[h]
       IN Live(c) =>
            /\ c \in DOMAIN rateLimitMap'
            /\ rateLimitMap'[c].resetTime = rateLimitMap[c].resetTime
            /\ Admitted(h) =>
                 rateLimitMap' =
                   [rateLimitMap EXCEPT ![c].count = rateLimitMap[c].count + 1]
            /\ Rejected(h) => rateLimitMap' = rateLimitMap]_vars

\* a window filled by admitted requests and then a rejection, later than the
\* window's start, with resetTime still the one set at the start
C3_Witness ==
  \E c \in Clients :
    /\ c \in DOMAIN rateLimitMap
    /\ rateLimitMap[c].count = RATE_LIMIT_MAX
    /\ last429[c] = now
    /\ now > rateLimitMap[c].resetTime - RATE_LIMIT_WINDOW_MS
    /\ now <= rateLimitMap[c].resetTime

\* C4: the rate check of a request from one client neither creates, changes
\* nor deletes the entry of any other client.
C4_PerClient ==
  [][\A h \in Handlers : Arrives(h) =>
       \A b \in Clients \ {client'[h]} :
         /\ (b \in DOMAIN rateLimitMap') = (b \in DOMAIN rateLimitMap)
         /\ b \in DOMAIN rateLimitMap => rateLimitMap'[b] = rateLimitMap[b]]_vars

\* one client is admitted for the first time while the other is at its limit
\* and has been turned away
C4_Witness ==
  \E a \in Clients, b \in Clients, h \in Handlers :
    /\ a # b
    /\ a \in DOMAIN rateLimitMap /\ b \in DOMAIN rateLimitMap
    /\ rateLimitMap[a].count = RATE_LIMIT_MAX /\ last429[a] >= 0
    /\ pc[h] = "json" /\ client[h] = b /\ rateLimitMap[b].count = 1

\* C5: a client that got 429 at time t and sent nothing since is admitted
\* by the rate check of its request at t + 60 s (the Retry-After it was given).
C5_RetryAfterHonoured ==
  [][\A h \in Handlers : Arrives(h) =>
       LET c == client'[h]
       IN (last429[c] >= 0 /\ now = last429[c] + RETRY_AFTER_S * 1000)
            => Admitted(h)]_vars

\* a handler is suspended at one of the awaits of POST
Suspended(h) == pc[h] \in {"json", "generate", "sleep", "zip"}

\* C17: whatever the other handlers are doing, suspended at any of their
\* awaits, a rate check reads and updates the client's entry in one step
\* that moves no other handler: the entry's count is always the number of
\* requests admitted in the window, and never more than 10 are.
C17_AtomicRateCheck ==
  /\ [](\A c \in Clients :
          /\ passed[c] <= 10
          /\ c \in DOMAIN rateLimitMap => rateLimitMap[c].count = passed[c])
  /\ [][\A h \in Handlers : Arrives(h) =>
          /\ \A g \in Handlers \ {h} : pc'[g] = pc[g] /\ response'[g] = response[g]
          /\ (Live(client'[h]) /\ passed[client'[h]] >= 10) => Rejected(h)
          /\ Admitted(h) =>
               rateLimitMap'[client'[h]].count =
                 (IF Live(client'[h]) THEN rateLimitMap[client'[h]].count + 1 ELSE 1)
          /\ Rejected(h) => rateLimitMap' = rateLimitMap]_vars

\* ten requests of the client have passed in its first window; one handler is
\* still waiting between two attempts while the other's request got 429
C17_Witness ==
  \E h \in Handlers, g \in Handlers :
    /\ pc[h] = "sleep" /\ pc[g] = "done"
    /\ response[g].code = "RATE_LIMIT_EXCEEDED"
    /\ client[h] = client[g]
    /\ windowNo[client[h]] = 1 /\ passed[client[h]] = 10

\* C18: cleanupRateLimitMap deletes exactly the entries with
\* now > resetTime and leaves the others as they are, and every request
\* gets the verdict that a limiter which is never cleaned up gives it.
C18_CleanupInvisible ==
  /\ [][Cleanup =>
          /\ DOMAIN rateLimitMap' =
               { k \in DOMAIN rateLimitMap : ~(now > rateLimitMap[k].resetTime) }
          /\ \A k \in DOMAIN rateLimitMap' : rateLimitMap'[k] = rateLimitMap[k]]_vars
  /\ [][\A h \in Handlers : Arrives(h) =>
          LET c == client'[h]
              never == c \notin DOMAIN reference \/ now > reference[c].resetTime
              full == reference[c].count >= 10
          IN /\ Rejected(h) <=> (~never /\ full)
             /\ rateLimitMap'[c] = reference'[c]]_vars
  /\ [](\A c \in DOMAIN reference :
          IF c \in DOMAIN rateLimitMap THEN rateLimitMap[c] = reference[c]
          ELSE now > reference[c].resetTime)

\* cleanup has deleted one client's expired, full entry and kept the
\* other client's live one
C18_Witness ==
  \E a \in Clients, b \in Clients :
    /\ a \notin DOMAIN rateLimitMap /\ a \in DOMAIN reference
    /\ reference[a].count = RATE_LIMIT_MAX
    /\ b \in DOMAIN rateLimitMap /\ now <= rateLimitMap[b].resetTime

\* C19: a request that has passed the rate check stays counted whatever
\* answer it gets later: no answer of a handler changes rateLimitMap, a
\* count only grows while its window lasts, and the request after ten
\* counted ones gets 429 whether those were answered 200, 400 or 500.
C19_RejectedRequestsCount ==
  /\ [][\A h \in Handlers : (Suspended(h) /\ pc'[h] # pc[h]) =>
          /\ rateLimitMap' = rateLimitMap
          /\ passed' = passed]_vars
  /\ [][\A c \in Clients :
          (c \in DOMAIN rateLimitMap /\ c \in DOMAIN rateLimitMap'
             /\ rateLimitMap'[c].resetTime = rateLimitMap[c].resetTime) =>
            rateLimitMap'[c].count >= rateLimitMap[c].count]_vars
  /\ [](\A h \in Handlers :
          (pc[h] # "idle" /\ response[h].status # 429
             /\ windowNo[client[h]] = 1 /\ client[h] \in DOMAIN rateLimitMap) =>
            rateLimitMap[client[h]].count >= 1)
  /\ [][\A h \in Handlers :
          (Arrives(h) /\ Live(client'[h]) /\ passed[client'[h]] >= 10) =>
            (Rejected(h) /\ response'[h].status = 429)]_vars

\* in the client's first window ten requests were admitted; one of them has
\* just been answered 400 for its body, and the next request got 429
C19_Witness ==
  \E h \in Handlers, g \in Handlers :
    /\ pc[h] = "done" /\ response[h] = ErrorResponse(400, "INVALID_REQUEST")
    /\ pc[g] = "done" /\ response[g].status = 429
    /\ client[h] = client[g]
    /\ windowNo[client[h]] = 1 /\ passed[client[h]] = 10
    /\ rateLimitMap[client[h]].count = 10

\* ------------------------------------------------------------ document claims

ColorInRange(x) == zInt(x) /\ NumGe(x, 0) /\ NumLe(x, COLOR_MAX)

\* temperature in [-2.0, 2.0], downfall in [0.0, 1.0], colours in 0..16777215
InRanges(d) ==
  /\ NumGe(d.temperature, -2) /\ NumLe(d.temperature, 2)
  /\ NumGe(d.downfall, 0) /\ NumLe(d.downfall, 1)
  /\ ColorInRange(d.effects.sky_color)
  /\ ColorInRange(d.effects.fog_color)
  /\ ColorInRange(d.effects.water_color)
  /\ ColorInRange(d.effects.water_fog_color)
  /\ (d.effects.foliage_color.t = "undefined" \/ ColorInRange(d.effects.foliage_color))
  /\ (d.effects.grass_color.t = "undefined" \/ ColorInRange(d.effects.grass_color))

SpawnLists(d) ==
  {d.spawners.monster, d.spawners.creature, d.spawners.ambient,
   d.spawners.water_creature, d.spawners.water_ambient}

\* C6: every document the handler puts into the archive has temperature in
\* [-2.0, 2.0], downfall in [0.0, 1.0] and every colour an integer in
\* 0..16777215.
C6_ArchivedInRanges ==
  \A h \in Handlers : archive[h] # JUndef => InRanges(archive[h])

\* C7: every document the handler puts into the archive has exactly 10
\* feature stages.
C7_ArchivedStageCount ==
  \A h \in Handlers :
    archive[h] # JUndef => Len(archive[h].features.items) = FEATURE_STAGES

\* C8: every spawn tuple of a document the handler's schema validation
\* accepted has minCount <= maxCount and weight > 0.
C8_SpawnTuplesSound ==
  \A h \in Handlers :
    biomeConfig[h] # JUndef =>
      \A list \in SpawnLists(biomeConfig[h]) :
        \A i \in 1..Len(list.items) :
          /\ list.items[i].minCount.v <= list.items[i].maxCount.v
          /\ list.items[i].weight.v > 0

\* C9 as stated: a request answered with an archive produced exactly one
\* document and validated it exactly once.
C9_ProducedOnceValidatedOnce ==
  \A h \in Handlers :
    (pc[h] = "done" /\ response[h].status = 200) =>
      (produced[h] = 1 /\ validations[h] = 1)

\* C9 as amended: a request answered with an archive produced between one
\* and MAX_RETRIES documents (one per attempt whose text parsed), the archive
\* holds the last of them, and BiomeSchema.parse ran on that document exactly
\* twice (in generateBiomeFromDescription and in parseBiomeResponse) before
\* it was serialized.
C9_LastDocumentValidatedTwice ==
  \A h \in Handlers :
    (pc[h] = "zip" \/ (pc[h] = "done" /\ response[h].status = 200)) =>
      /\ produced[h] \in 1..MAX_RETRIES
      /\ validations[h] = 2
      /\ archive[h] # JUndef
      /\ BiomeSchema(archive[h])

\* an archive was answered after a first document had been discarded
C9_Witness ==
  \E h \in Handlers :
    /\ pc[h] = "done" /\ response[h].status = 200
    /\ produced[h] = 2 /\ validations[h] = 2 /\ archive[h] # JUndef

StageOrder == <<"rate", "body", "ai", "validate", "bundle">>
IsPrefix(s, t) == Len(s) <= Len(t) /\ s = SubSeq(t, 1, Len(s))
UpTo(stage) ==
  SubSeq(StageOrder, 1, CHOOSE i \in 1..Len(StageOrder) : StageOrder[i] = stage)

\* C10: the stages run in the order rate check, body validation, AI
\* generation, document validation, bundling; the answer is 200
\* application/zip only if all five ran and none failed; a failed stage is
\* the last one run and is answered with its own status and code; an
\* exception outside the stages is answered 500 INTERNAL_ERROR.
C10_StagesInOrder ==
  \A h \in Handlers :
    /\ IsPrefix(ran[h], StageOrder)
    /\ pc[h] = "json" => ran[h] = UpTo("rate")
    /\ pc[h] \in {"generate", "sleep"} => ran[h] = UpTo("ai")
    /\ pc[h] = "zip" => ran[h] = StageOrder
    /\ pc[h] = "done" =>
         LET r == response[h]
         IN /\ (r.status = 200) = (failed[h] = "")
            /\ r.status = 200 =>
                 /\ ran[h] = StageOrder
                 /\ r.contentType = "application/zip"
                 /\ archive[h] # JUndef
            /\ r.status # 200 => archive[h] = JUndef
            /\ failed[h] \in {"rate", "body", "ai", "validate", "bundle"} =>
                 ran[h] = UpTo(failed[h])
            /\ failed[h] = "rate" => (r.status = 429 /\ r.code = "RATE_LIMIT_EXCEEDED")
            /\ failed[h] = "body" => (r.status = 400 /\ r.code = "INVALID_REQUEST")
            /\ failed[h] = "ai" =>
                 (r.status = 500 /\ r.code \in {"AI_ERROR", "AI_RATE_LIMIT"})
            /\ failed[h] = "validate" => (r.status = 500 /\ r.code = "VALIDATION_ERROR")
            /\ failed[h] = "bundle" => (r.status = 500 /\ r.code = "GENERATION_ERROR")
            /\ failed[h] = "other" => (r.status = 500 /\ r.code = "INTERNAL_ERROR")
            /\ r.code = "RATE_LIMIT_EXCEEDED" => ran[h] = UpTo("rate")
            /\ r.code = "INVALID_REQUEST" => ran[h] = UpTo("body")
            /\ r.code \in {"AI_ERROR", "AI_RATE_LIMIT"} => ran[h] = UpTo("ai")
            /\ r.code = "VALIDATION_ERROR" => ran[h] = UpTo("validate")
            /\ r.code \in {"GENERATION_ERROR", "INTERNAL_ERROR"} => ran[h] = StageOrder
            /\ (r.code = "") = (r.status = 200)

\* the service failed three times with a rate-limit error: the handler
\* answered AI_RATE_LIMIT and neither validated nor bundled anything
C10_Witness ==
  \E h \in Handlers :
    /\ pc[h] = "done" /\ response[h].code = "AI_RATE_LIMIT"
    /\ ran[h] = <<"rate", "body", "ai">> /\ attempt[h] = MAX_RETRIES
    /\ archive[h] = JUndef

\* ------------------------------------------------------------ request claims
\* the handler has read an object body and has answered it 400 INVALID_REQUEST
BadRequest(h) ==
  pc[h] = "done" /\ response[h] = ErrorResponse(400, "INVALID_REQUEST")
HasObjectBody(h) == body[h] # NoBody /\ body[h].json = "object"

ReachedAi(h) == Len(ran[h]) >= 3
\* the characters of ^[a-z0-9_]+$
PatternChars ==
  {"a","b","c","d","e","f","g","h","i","j","k","l","m","n","o","p","q","r",
   "s","t","u","v","w","x","y","z","0","1","2","3","4","5","6","7","8","9","_"}
MatchesPattern(name) ==
  name # <<>> /\ \A i \in 1..Len(name) : name[i] \in PatternChars
\* the description of the body passes the checks on the description
DescriptionPasses(b) ==
  /\ b.description.t = "string"
  /\ TrimLen(b.description) >= 10 /\ StrLen(b.description) <= 1000
NonEmpty(piece) == piece # <<>>
\* the name made of the first three words of the description
FromWords(d) == sanitizeBiomeName(Join(Slice(SelectSeq(Pieces(d), NonEmpty), 3), "_"))
\* the name made of the first three pieces between single spaces
FromPieces(d) == sanitizeBiomeName(Join(Slice(Pieces(d), 3), "_"))
OrCustomBiome(name) ==
  IF name = <<>> THEN <<"c","u","s","t","o","m","_","b","i","o","m","e">> ELSE name

\* C16 as stated: at the AI stage biomeName is non-empty and matches
\* ^[a-z0-9_]+$; a supplied biomeName that sanitizes to the empty string is
\* answered 400 INVALID_REQUEST; without a supplied name the name is the
\* sanitized first three words of the description, or 'custom_biome' when
\* that is empty.
C16_NameFromWords ==
  \A h \in Handlers : HasObjectBody(h) =>
    LET b == body[h]
    IN /\ ReachedAi(h) => MatchesPattern(biomeName[h])
       /\ (DescriptionPasses(b) /\ b.biomeName.t = "string"
             /\ sanitizeBiomeName(b.biomeName.chars) = <<>>) => BadRequest(h)
       /\ (ReachedAi(h) /\ b.biomeName = JUndef) =>
            biomeName[h] = OrCustomBiome(FromWords(b.description))

\* C16 as amended: at the AI stage biomeName is non-empty and matches
\* ^[a-z0-9_]+$; a supplied non-empty biomeName is sanitized and, when
\* nothing is left, answered 400 INVALID_REQUEST; without a name, or with
\* the empty string as name, the name is made of the first three pieces of
\* description.split(' ') (empty pieces included) joined by '_' and
\* sanitized, or is 'custom_biome' when that is empty.
C16_NameFromPieces ==
  \A h \in Handlers : HasObjectBody(h) =>
    LET b == body[h]
        named == b.biomeName.t = "string" /\ b.biomeName.chars # <<>>
    IN /\ ReachedAi(h) => MatchesPattern(biomeName[h])
       /\ (DescriptionPasses(b) /\ named
             /\ sanitizeBiomeName(b.biomeName.chars) = <<>>) => BadRequest(h)
       /\ (ReachedAi(h) /\ named) =>
            biomeName[h] = sanitizeBiomeName(b.biomeName.chars)
       /\ (ReachedAi(h) /\ ~named) =>
            /\ b.biomeName = JUndef \/ b.biomeName = NStr(<<>>)
            /\ biomeName[h] = OrCustomBiome(FromPieces(b.description))

\* the empty string was supplied as name and '  Icy peak land!' gave 'icy'
C16_Witness ==
  \E h \in Handlers :
    /\ HasObjectBody(h) /\ ReachedAi(h)
    /\ body[h].biomeName = NStr(<<>>)
    /\ Pieces(body[h].description)[1] = <<>>
    /\ biomeName[h] = <<"i","c","y">>

\* ------------------------------------------------------------ retry claims
InGenerate(h) == pc[h] \in {"generate", "sleep"}

\* what holds of generateBiomeFromDescription in every state
RetryBounded(h) ==
  /\ calls[h] <= 3
  /\ pc[h] = "generate" => (calls[h] \in 1..3 /\ attempt[h] = calls[h])
  /\ pc[h] = "sleep" => (calls[h] \in 1..2 /\ lastError[h] # NoError)
  /\ pc[h] = "zip" =>
       (calls[h] >= 1 /\ raised[h] = NoError /\ BiomeSchema(biomeConfig[h]))
  /\ (pc[h] = "done" /\ failed[h] = "ai") =>
       IF apiKeySet
       THEN /\ calls[h] = 3 /\ lastError[h] # NoError
            /\ raised[h] = [src |-> "exhausted", rl |-> lastError[h].rl,
                             attempts |-> 3, last |-> lastError[h]]
       ELSE calls[h] = 0 /\ raised[h].src = "nokey"
  /\ raised[h].src = "exhausted" => (calls[h] = 3 /\ failed[h] = "ai")

\* what holds of every step of generateBiomeFromDescription
RetryStep(h) ==
  /\ (pc[h] = "generate" /\ pc'[h] = "sleep") =>
       (lastError'[h] # NoError /\ calls'[h] = calls[h] /\ calls[h] < 3)
  /\ (pc[h] = "sleep" /\ pc'[h] # "sleep") =>
       (pc'[h] = "generate" /\ calls'[h] = calls[h] + 1)
  /\ \A out \in AiOutcomes :
       (AiRespond(h, out) /\ out.kind = "json" /\ BiomeSchema(out.doc)) =>
         /\ pc'[h] = "zip" /\ calls'[h] = calls[h]
         /\ biomeConfig'[h] = [out.doc EXCEPT !.extra = FALSE]
  /\ \A out \in AiOutcomes :
       (AiRespond(h, out) /\ ~(out.kind = "json" /\ BiomeSchema(out.doc))) =>
         /\ pc'[h] = (IF calls[h] < 3 THEN "sleep" ELSE "done")
         /\ lastError'[h].src =
              (IF out.kind = "throw" THEN "service"
               ELSE IF out.kind = "garbage" THEN "parse" ELSE "schema")
  /\ (pc[h] \in {"zip", "done"} /\ pc'[h] # "idle") => calls'[h] = calls[h]

\* C12: generateBiomeFromDescription makes at most MAX_RETRIES = 3 calls of
\* the service and then ends (given that every call settles): the first
\* attempt whose text parses and validates ends it with that validated
\* document and no further call; a failed attempt is followed by another
\* one while fewer than 3 were made; after the third failure it throws an
\* error that names 3 attempts and the last attempt's error.
C12_AtMostThreeCalls ==
  /\ [](\A h \in Handlers : RetryBounded(h))
  /\ [][\A h \in Handlers : RetryStep(h)]_vars
  /\ \A h \in Handlers : InGenerate(h) ~> pc[h] \in {"zip", "done"}

\* the third attempt failed schema validation after two failures, and the
\* thrown error names 3 attempts and that failure
C12_Witness ==
  \E h \in Handlers :
    /\ pc[h] = "done" /\ failed[h] = "ai" /\ calls[h] = 3
    /\ lastError[h].src = "schema"
    /\ raised[h].src = "exhausted" /\ raised[h].attempts = 3
    /\ raised[h].last = lastError[h]

\* C20: the wait after a failed attempt is 2000 ms after attempt 1 and
\* 4000 ms after attempt 2 when the error's message names 'rate limit',
\* 'quota' or '429' (RETRY_DELAY_MS * attempt), the constant 2000 ms after
\* any other failure, and there is no wait after the third failed attempt.
C20_BackoffDelays ==
  \A h \in Handlers :
    /\ pc[h] = "sleep" =>
         /\ calls[h] \in {1, 2}
         /\ lastError[h] # NoError
         /\ delay[h] = (IF lastError[h].rl
                        THEN (IF calls[h] = 1 THEN 2000 ELSE 4000)
                        ELSE 2000)
    /\ pc[h] # "sleep" => delay[h] = 0
    /\ (pc[h] = "done" /\ raised[h].src = "exhausted") =>
         (calls[h] = 3 /\ delay[h] = 0)

\* the second attempt failed with a rate-limit error and the handler waits
\* 4000 ms
C20_Witness ==
  \E h \in Handlers :
    /\ pc[h] = "sleep" /\ calls[h] = 2 /\ lastError[h].rl
    /\ delay[h] = 4000

\* ------------------------------------------------------------ helper claims
\* C13: the result of sanitizeBiomeName holds only a-z, 0-9 and underscore,
\* has no two underscores in a row, neither starts nor ends with an
\* underscore, and is left unchanged by sanitizeBiomeName.
C13_SanitizedShape ==
  call.fn = "sanitizeBiomeName" =>
    LET out == call.result
    IN /\ \A i \in 1..Len(out) :
            \/ out[i] \in {"a","b","c","d","e","f","g","h","i","j","k","l","m",
                            "n","o","p","q","r","s","t","u","v","w","x","y","z"}
            \/ out[i] \in {"0","1","2","3","4","5","6","7","8","9"}
            \/ out[i] = "_"
       /\ \A i \in 1..(Len(out) - 1) : ~(out[i] = "_" /\ out[i + 1] = "_")
       /\ out # <<>> => (out[1] # "_" /\ out[Len(out)] # "_")
       /\ sanitizeBiomeName(out) = out

\* "_Z!" has become "z": lower-cased, replaced, collapsed and stripped
C13_Witness ==
  /\ call.fn = "sanitizeBiomeName"
  /\ call.arg = <<"_", "Z", "!">>
  /\ call.result = <<"z">>

\* C14: rgbToInt of components in 0..255 lies in 0..16777215 and intToRgb
\* gives the components back; rgbToInt of the components intToRgb gives for
\* a colour in 0..16777215 is that colour.
C14_ColorRoundTrip ==
  /\ call.fn = "rgbToInt" =>
       /\ call.result \in 0..16777215
       /\ intToRgb(call.result) =
            [r |-> call.arg[1], g |-> call.arg[2], b |-> call.arg[3]]
  /\ call.fn = "intToRgb" =>
       /\ call.result.r \in 0..255 /\ call.result.g \in 0..255
       /\ call.result.b \in 0..255
       /\ rgbToInt(call.result.r, call.result.g, call.result.b) = call.arg
       /\ call.result.r * 65536 + call.result.g * 256 + call.result.b = call.arg

\* (255, 0, 128) was packed, with the red component in the top byte
C14_Witness ==
  /\ call.fn = "rgbToInt"
  /\ call.arg = <<255, 0, 128>>
  /\ call.result = 16711808

\* C15: rgbToInt gives for each example of the prompt the packed value the
\* prompt shows: 9232634 for (140, 180, 250) and 12638463 for (192, 192, 192).
C15_PromptExamplesAgree ==
  call.fn = "rgbToInt" =>
    \A e \in PromptExamples : call.arg = e.rgb => call.result = e.packed

\* ------------------------------------------------------------ error codes
\* the error that generateBiomeFromDescription threw came from a rate-limit
\* or quota failure of the service on the last attempt
ServiceLimitFailure(h) ==
  /\ raised[h].src = "exhausted"
  /\ raised[h].last.src = "service"
  /\ raised[h].last.rl

\* C21: when AI generation fails, the response's code is AI_RATE_LIMIT
\* exactly when the service's last failure was a rate-limit or quota error,
\* and AI_ERROR for every other failure (unparsable text, schema failure,
\* missing API key).
C21_CodeFollowsServiceFailure ==
  \A h \in Handlers :
    (pc[h] = "done" /\ failed[h] = "ai") =>
      /\ response[h].code \in {"AI_RATE_LIMIT", "AI_ERROR"}
      /\ response[h].code = "AI_RATE_LIMIT" <=> ServiceLimitFailure(h)

\* ------------------------------------------------------------ validator claims
\* x is a number within lo..hi
NumberWithin(x, lo, hi) ==
  x.t = "number" /\ x # JNaN /\ NumGe(x, lo) /\ NumLe(x, hi)

\* what C22 lists as making a biome invalid
MissingRequired(biome) ==
  \E i \in 1..Len(RequiredFields) : Get(biome, RequiredFields[i]) = JUndef
BadColor(biome) ==
  \E i \in 1..Len(RequiredColors) :
    LET c == Get(Get(biome, "effects"), RequiredColors[i])
    IN ~(NumberWithin(c, 0, COLOR_MAX) /\ c.whole)

\* C22: validateBiomeStructure returns valid = true exactly when its errors
\* list is empty; it returns valid = false whenever a required field is
\* missing, temperature is not a number in [-2, 2], downfall is not a number
\* in [0, 1], or one of the four required colors is missing or not an
\* integer in 0..16777215; a non-object input yields exactly one error, on
\* field 'root'.
C22_StructureVerdict ==
  call.fn = "validateBiomeStructure" =>
    LET biome == call.arg
        result == call.result
    IN /\ result.valid <=> result.errors = <<>>
       /\ ~IsObject(biome) =>
            /\ Len(result.errors) = 1
            /\ result.errors[1].field = "root"
       /\ ( \/ MissingRequired(biome)
            \/ ~NumberWithin(Get(biome, "temperature"), -2, 2)
            \/ ~NumberWithin(Get(biome, "downfall"), 0, 1)
            \/ BadColor(biome) ) => ~result.valid

\* the categories that a spawners object holds, and their entries
CategoriesOf(spawns) ==
  { c \in DOMAIN spawns \ {"t"} : spawns[c] # JUndef }
EntriesOf(spawns) ==
  UNION { { spawns[c].items[i] : i \in 1..Len(spawns[c].items) } :
            c \in { k \in CategoriesOf(spawns) : spawns[k].t = "array" } }

\* the entry has all four fields, an integer weight >= 1 and integer
\* minCount and maxCount with minCount <= maxCount
WellFormedEntry(e) ==
  /\ e.t = "object"
  /\ \A i \in 1..Len(EntryFields) : Get(e, EntryFields[i]) # JUndef
  /\ IsInteger(e.weight) /\ e.weight.v >= 1
  /\ IsInteger(e.minCount) /\ IsInteger(e.maxCount)
  /\ e.minCount.v <= e.maxCount.v

MinAboveMax(e) ==
  /\ e.t = "object"
  /\ e.minCount.t = "number" /\ e.maxCount.t = "number"
  /\ Greater(e.minCount, e.maxCount)

HasMinMaxError(result) ==
  \E i \in 1..Len(result.errors) : result.errors[i].message = MinMaxMessage

\* C23: validateMobSpawns returns valid = true only if every spawn entry of
\* every category in the spawners object has all four fields, an integer
\* weight >= 1 and integer minCount and maxCount with minCount <= maxCount;
\* an entry with minCount > maxCount always produces the error 'minCount
\* must be less than or equal to maxCount'.
C23_SpawnVerdict ==
  (call.fn = "validateMobSpawns" /\ call.arg.t = "object") =>
    /\ call.result.valid => \A e \in EntriesOf(call.arg) : WellFormedEntry(e)
    /\ (\E e \in EntriesOf(call.arg) : MinAboveMax(e)) => HasMinMaxError(call.result)

\* a string with the 'minecraft:' prefix that is not in the given list
UnlistedMinecraftId(x, known) ==
  x.t = "string" /\ StartsWithMinecraft(x) /\ TextOf(x) \notin known

\* the biome is ValidBiome but for its surface_builder and the mob types of
\* its spawn entries, none of which is listed
UnlistedOnly(biome) ==
  \/ \E x \in SurfaceInputs :
       /\ UnlistedMinecraftId(x, KNOWN_SURFACE_BUILDERS)
       /\ biome = [ValidBiome EXCEPT !.surface_builder = x]
  \/ \E x \in TypeInputs :
       /\ UnlistedMinecraftId(x, KNOWN_MOBS)
       /\ biome = [ValidBiome EXCEPT !.spawners.monster =
                     JArr(<<Zombie, SpawnEntry(x, JNum(100), JNum(2), JNum(4))>>)]

\* C24: membership in the known-ID lists is a warning, not an error: for a
\* 'minecraft:' block ID that is not in KNOWN_BLOCKS validateBlockId returns
\* valid = true, and a namespaced mob type not in KNOWN_MOBS or a string
\* surface_builder not in KNOWN_SURFACE_BUILDERS does not by itself make
\* validateBiomeStructure return valid = false.
C24_UnlistedIdsAreWarnings ==
  /\ (call.fn = "validateBlockId" /\ UnlistedMinecraftId(call.arg, KNOWN_BLOCKS)) =>
       call.result.valid
  /\ (call.fn = "validateBiomeStructure" /\ UnlistedOnly(call.arg)) =>
       call.result.valid

\* ------------------------------------------------------------ builder claims
\* C25: createFeatureArray returns exactly 11 stages (indices 0 to 10) for
\* every input list, with the given vegetal decorations as stage 9 in the
\* given order and every other stage the same for every input, so its
\* result passes BiomeConfigSchema's check of exactly 11 feature generation
\* steps, as do the features of baseBiome.
C25_ElevenStages ==
  /\ call.fn = "createFeatureArray" =>
       /\ Len(call.result.items) = 11
       /\ call.result.items[9 + 1] = JArr(call.arg)
       /\ \A other \in DecorationLists : \A i \in (1..11) \ {9 + 1} :
            call.result.items[i] = createFeatureArray(other).items[i]
       /\ FeatureStepsCheck(call.result)
  /\ FeatureStepsCheck(BaseBiomeFeatures)

\* a call with two different decorations
C25_Witness ==
  /\ call.fn = "createFeatureArray"
  /\ Len(call.arg) = 2 /\ call.arg[1] # call.arg[2]
  /\ call.result.items[9 + 1].items = call.arg

\* the colors object of a call's options, and the value given for a key
GivenColor(options, key) ==
  IF options.colors = JUndef THEN JUndef ELSE options.colors[key]
NonEmptyString(x) == x.t = "string" /\ TextOf(x) # ""

\* the four colors with a default, the default spawner type and
\* has_precipitation
MergedDefaults(options, biome) ==
  /\ \A key \in {"water_color", "water_fog_color", "fog_color", "sky_color"} :
       biome.effects[key] =
         (IF NonEmptyString(GivenColor(options, key))
          THEN GivenColor(options, key) ELSE StandardPalette[key])
  /\ options.spawnerType = JUndef =>
       /\ biome.spawners.creature = MOB_SPAWNERS["standard"].creature
       /\ biome.spawners.monster = MOB_SPAWNERS["standard"].monster
  /\ biome.has_precipitation.b <=>
       /\ options.temperature # JNaN /\ options.downfall # JNaN
       /\ options.temperature.tenths <= 15
       /\ options.downfall.tenths > 0

\* C26 as stated: default-merging in createBiomeConfig: each of water_color,
\* water_fog_color, fog_color and sky_color equals the caller's value when a
\* non-empty one is supplied and the standard palette's otherwise;
\* foliage_color and grass_color are present in effects exactly when
\* supplied; spawnerType defaults to 'standard'; has_precipitation is true
\* exactly when temperature <= 1.5 and downfall > 0.
C26_PresentWhenSupplied ==
  call.fn = "createBiomeConfig" =>
    /\ MergedDefaults(call.arg, call.result)
    /\ \A key \in {"foliage_color", "grass_color"} :
         call.result.effects[key] # JUndef <=> GivenColor(call.arg, key) # JUndef

\* C26 as amended: as stated, but foliage_color and grass_color are present in
\* effects exactly when a non-empty value is supplied (and then hold it);
\* an empty string counts as not supplied, as it does for the four colors
\* with a default.
C26_PresentWhenNonEmpty ==
  call.fn = "createBiomeConfig" =>
    /\ MergedDefaults(call.arg, call.result)
    /\ \A key \in {"foliage_color", "grass_color"} :
         call.result.effects[key] =
           (IF NonEmptyString(GivenColor(call.arg, key))
            THEN GivenColor(call.arg, key) ELSE JUndef)

\* a call that supplies a sky color, an empty water fog color and an empty
\* foliage color, and no spawner type
C26_Witness ==
  /\ call.fn = "createBiomeConfig"
  /\ call.arg.colors # JUndef
  /\ call.arg.colors.sky_color = Plain("#112233")
  /\ call.arg.colors.water_fog_color = Plain("")
  /\ call.arg.colors.foliage_color = Plain("")
  /\ call.arg.spawnerType = JUndef
  /\ call.result.effects.sky_color = Plain("#112233")
  /\ call.result.effects.water_fog_color = StandardPalette.water_fog_color
  /\ call.result.effects.foliage_color = JUndef
  /\ call.result.has_precipitation.b


====
